---- MODULE Spec2Model ----
(***************************************************************************)
(* Model of the Jetson-PRS licence plate recognition pipeline              *)
(* (src/src/lpr_system.cpp): the per-plate cooldown map of                 *)
(* LPRSystem::checkCooldown and the capture / processing threads that      *)
(* share the bounded frame queue, with start() and stop(); and of the      *)
(* components it calls: PlateValidator and PlateDetector (detector.cpp)    *)
(* and OCRProcessor (ocr_processor.cpp), each exercised by a               *)
(* specification of its own.                                               *)
(*                                                                         *)
(* Time is counted in clock ticks; a reading of system_clock::now() is an  *)
(* input of the action that reads it and never runs backwards.             *)
(***************************************************************************)
EXTENDS Integers, Sequences, FiniteSets, TLC

\* ---------------------------------------------------------------- bounds
\* Last clock tick a checkCooldown call of SpecCooldown may be made at.
MaxTime == 22

\* Frames the frame source delivers in one run of the model.
MaxFrames == 4

\* Starts of the pipeline (start() calls that launch the threads).
MaxStarts == 2

\* Last clock tick read while the whole pipeline runs.
MaxPipeTime == 0

\* Candidates the detector returns for one frame.
MaxDets == 1

\* Longest text enumerated as input of normalizeColombianPlate.
MaxTextLen == 7

\* Candidates in one decoded detector output.
MaxCands == 3

\* Widest bounding box enumerated, in pixels.
MaxBoxWidth == 3

\* recognize() calls made on one OCRProcessor.
MaxOcrCalls == 3

\* recognizeInternal calls made on the OCRProcessor whose cache is filled.
MaxEngineCalls == 101

\* Largest coordinate and extent of a candidate box handed to processFrame.
MaxCoord == 5

\* Last clock tick read while candidates are stamped and checked.
MaxSinkTime == 5

\* recognizeMultipleAttempts calls made on one OCRProcessor.
MaxAttemptCalls == 2

\* -------------------------------------------------------------- constants
\* lpr_system.cpp:14  max_queue_size_(3)
MaxQueueSize == 3

\* lpr_system.cpp:15  cooldown_seconds_(0.5), in ticks of 250 ms
DefaultCooldown == 2

\* lpr_system.cpp:405  "elapsed > cooldown_seconds_ * 10"
PruneFactor == 10

\* config_manager.cpp:35  processing.confidence_threshold 0.30, in hundredths
ConfidenceThreshold == 30

\* detector.h  applyNMS(detections, nms_threshold = 0.5f), in hundredths
NmsThreshold == 50

\* ocr_processor.cpp:17  max_cache_size_(100)
MaxCacheSize == 100

\* config_manager.cpp:36  processing.plate_confidence_min 0.25, given to
\* OCRProcessor::setConfidenceThreshold (lpr_system.cpp:84), in hundredths
PlateConfidenceMin == 25

\* Normalized plate texts that reach checkCooldown.
Plates == {"ABC123", "CD1234"}

\* Values of processing.detection_cooldown_sec, in ticks.
CooldownValues == {0, 1, 2}

\* Normalized plate texts the detections of the whole pipeline carry.
PipePlates == {"ABC123"}

\* The cooldown configured when the whole pipeline runs, in ticks.
PipeCooldowns == {1}

\* Values of realtime_optimization.ai_process_every (the cadence divisor).
CadenceValues == {1, 2, 3}

\* detection_cooldown_.find(p) == end()
NoEntry == -1

\* An option that is not on the command line.
NoOption == -1

\* main() run without options.
NoOptions == [ai_every |-> NoOption, cooldown |-> NoOption, confidence |-> NoOption]

\* Command lines: no option, and --ai-every 3 --cooldown 0.5 --confidence 0.50
\* (cooldown in ticks, confidence in hundredths).
CliOptions == {NoOptions, [ai_every |-> 3, cooldown |-> 2, confidence |-> 50]}

\* cv::Mat frame; before a frame is assigned to it
NoFrame == 0

VARIABLES
    detection_cooldown_,   \* unordered_map plate -> last accepted time (NoEntry: absent)
    cooldown_seconds_,     \* cooldown interval
    now,                   \* latest reading of system_clock::now()
    last_check,            \* history: the latest checkCooldown call and its result
    prev_accept,           \* history: time of the latest accepted check per plate
    supp_since,            \* history: a check of the plate was suppressed since then
    result_timestamp,      \* processFrame: result.timestamp of the candidate in hand
    saved_at,              \* history: timestamp of the latest event per plate
    last_event,            \* history: the latest event handed to saveDetection
    config_,               \* ConfigManager values read by the pipeline
    cli,                   \* main(): the option values parsed from argv (NoOption: absent)
    initialized_,          \* std::atomic<bool>
    running_,              \* std::atomic<bool>, the shutdown flag
    ctl_pc,                \* control thread: "idle" or its position inside stop()
    cap_pc,                \* capture thread position
    proc_pc,               \* processing thread position
    frame_queue_,          \* std::queue<cv::Mat>; a frame is its capture ordinal
    frame_queue_mutex_,    \* "free" or the thread holding the lock
    cap_frame,             \* captureThread's local frame
    proc_frame,            \* processingThread's local frame
    frame_skip_counter,    \* processingThread's local counter of dequeued frames
    ai_every,              \* processingThread's local cadence divisor
    frame_counter_,
    ai_frame_counter_,
    detection_counter_,
    stats_,                \* Stats copied by updateStats
    results,               \* processingThread's local: what processFrame returned
    video_started,         \* VideoCapture::started_ / running_
    detector_ready,        \* PlateDetector::initialized_
    db_connected,          \* DatabaseManager::isConnected()
    db_inserted,           \* number of insertDetection calls made
    enqueued,              \* history: frames pushed to frame_queue_, in order
    processed,             \* history: frames passed to processFrame, in order
    run_ks,                \* history: values of frame_skip_counter at which the
                           \*          running processing thread ran processFrame
    pushes_since_pop,      \* history: pushes since the latest dequeue
    starts,                \* history: number of starts of the pipeline
    capture_thread_,       \* number of running threads launched through capture_thread_
    processing_thread_,    \* number of running threads launched through processing_thread_
    stopped_at,            \* history: frame_counter_ when the latest stop() returned
    init_returned,         \* history: what the latest initialize() returned: "none",
                           \*          "true", or "false" with the component that failed
    cooldown_mutex_,       \* "free" or the thread holding the lock
    cache_mutex_,          \* OCRProcessor::cache_mutex_: "free" or its holder
    raw_text,              \* PlateValidator: the text given to normalizeColombianPlate
    clean_text,            \* PlateValidator: cleanText(raw_text)
    normalized,            \* PlateValidator: the plate normalizeColombianPlate returned
    renormalized,          \* PlateValidator: that plate normalized once more
    val_pc,                \* PlateValidator: "idle", "input", "normalized", "renormalized",
                           \*          "extracted", "scored"
    candidates,            \* PlateValidator: what extractBestPlateCandidates returned
    cand_thrown,           \* PlateValidator: an exception left extractBestPlateCandidates
    format_score,          \* PlateValidator: what calculateFormatScore returned, in hundredths
    decoded,               \* PlateDetector: the boxes decoded from the network output
    detections,            \* PlateDetector: what postprocess returned
    indices,               \* PlateDetector::applyNMS: indices filled by NMSBoxes
    filtered_detections,   \* PlateDetector: what applyNMS returned
    det_pc,                \* PlateDetector: "idle", "decoded", "postprocessed", "filtered";
                           \*          "called", "returned", "cropped" around detect()
    det_call,              \* detect(frame): the detector's state, the frame and what
                           \*          the network does with it
    det_thrown,            \* detect(): an exception left it
    rois,                  \* processFrame: for each candidate, the clamped roi and
                           \*          whether it was cropped
    ocr_initialized_,      \* OCRProcessor::initialized_
    ocr_cache_,            \* OCRProcessor::ocr_cache_: fingerprint -> result, for the
                           \*          fingerprints that have an entry
    insert_order,          \* history: the fingerprints in ocr_cache_, oldest insertion first
    ocr_pc,                \* position inside recognize(): "idle", "lookup", "engine", "store"
    plate_image,           \* recognize(): its argument
    use_cache,             \* recognize(): its argument
    ocr_result,            \* recognize(): local result
    engine_calls,          \* history: number of recognizeInternal calls
    binary_index,          \* recognizeMultipleAttempts: binarized variants tried so far
    best_result,           \* recognizeMultipleAttempts: local best_result
    best_confidence,       \* recognizeMultipleAttempts: local best_confidence, in hundredths
    attempt_hist,          \* history: the attempts of the latest recognizeMultipleAttempts
    ocr_log,               \* history: the first MaxOcrCalls recognize() calls that returned
    accessed,              \* history: the accesses each loop made to the members
    log_accesses           \* history: whether the accesses are being recorded

cdVars == <<detection_cooldown_, cooldown_seconds_, now, last_check, prev_accept, supp_since,
           result_timestamp, saved_at, last_event>>

histVars == <<last_check, prev_accept, supp_since, result_timestamp, saved_at, last_event>>

ctlVars == <<config_, cli, initialized_, running_, ctl_pc, starts>>

capVars == <<cap_pc, cap_frame, frame_counter_>>

\* The threads start() launched, and where the latest stop() left the capture.
thrVars == <<capture_thread_, processing_thread_, stopped_at, init_returned>>

procVars == <<proc_pc, proc_frame, frame_skip_counter, ai_every, ai_frame_counter_,
              detection_counter_, stats_, results, processed, run_ks>>

queueVars == <<frame_queue_, frame_queue_mutex_, enqueued, pushes_since_pop>>

devVars == <<video_started, detector_ready, db_connected, db_inserted>>

\* State of the components the pipeline calls into.
valVars == <<raw_text, clean_text, normalized, renormalized, val_pc, candidates,
            cand_thrown, format_score>>

detVars == <<decoded, detections, indices, filtered_detections, det_pc, det_call,
            det_thrown, rois>>

\* Locals of recognizeMultipleAttempts and the history of its attempts.
attemptVars == <<binary_index, best_result, best_confidence, attempt_hist>>

ocrVars == <<ocr_initialized_, ocr_cache_, insert_order, ocr_pc, plate_image, use_cache,
            ocr_result, engine_calls, ocr_log, attemptVars>>

libVars == <<cache_mutex_, valVars, detVars, ocrVars>>

\* The history of the accesses to the members.
logVars == <<accessed, log_accesses>>

pipeVars == <<ctlVars, thrVars, capVars, procVars, queueVars, devVars, cooldown_mutex_, logVars,
              libVars>>

vars == <<cdVars, pipeVars>>

\* Everything of LPRSystem, left alone while a component is exercised on its own.
sysVars == <<cdVars, ctlVars, thrVars, capVars, procVars, queueVars, devVars, cooldown_mutex_,
             logVars>>

\* ------------------------------------------------------- checkCooldown
\* it != end() && elapsed < cooldown_seconds_    (lpr_system.cpp:389-397)
InCooldown_Inclusive(map, p, t, cd) ==
    map[p] # NoEntry /\ (t - map[p]) <= cd

InCooldown(map, p, t, cd) ==
    map[p] # NoEntry /\ (t - map[p]) < cd

\* "Limpiar entradas antiguas": erase every entry older than 10x cooldown
PruneOld_Never(map, t, cd) == map

PruneOld(map, t, cd) ==
    [q \in Plates |->
        IF map[q] # NoEntry /\ (t - map[q]) > cd * PruneFactor
        THEN NoEntry ELSE map[q]]

\* A suppressed check that refreshes the entry and prunes (maintenance moved
\* before the early return).
SuppressedMap_Touch(map, p, t, cd) == PruneOld([map EXCEPT ![p] = t], t, cd)

\* A suppressed check that still runs the pruning loop.
SuppressedMap_Prune(map, p, t, cd) == PruneOld(map, t, cd)

\* return false: nothing was written
SuppressedMap(map, p, t, cd) == map

\* An accept that inserts only when the plate has no entry (emplace instead of
\* operator[] assignment).
checkCooldown_NoRecord(map, p, t, cd) ==
    IF InCooldown(map, p, t, cd)
    THEN [ok |-> FALSE, map |-> map]
    ELSE [ok |-> TRUE,
          map |-> PruneOld(IF map[p] = NoEntry THEN [map EXCEPT ![p] = t] ELSE map, t, cd)]

\* bool LPRSystem::checkCooldown(plate_text) called at clock reading t
checkCooldown(map, p, t, cd) ==
    IF InCooldown(map, p, t, cd)
    THEN [ok |-> FALSE, map |-> SuppressedMap(map, p, t, cd)]
    ELSE [ok |-> TRUE,  map |-> PruneOld([map EXCEPT ![p] = t], t, cd)]

\* ------------------------------------------------ SpecCooldown: the map alone
NoCheck == [plate |-> "", ok |-> FALSE, gap |-> NoEntry, after_supp |-> FALSE]

\* The members of LPRSystem after its constructor, for a configuration file
\* holding cooldown cd and cadence divisor n.
Constructed(cd, n) ==
    /\ config_ = [detection_cooldown_sec |-> cd, ai_process_every |-> n]
    /\ initialized_ = FALSE
    /\ running_ = FALSE
    /\ ctl_pc = "idle"
    /\ cap_pc = "none"
    /\ proc_pc = "none"
    /\ frame_queue_ = <<>>
    /\ frame_queue_mutex_ = "free"
    /\ cap_frame = NoFrame
    /\ proc_frame = NoFrame
    /\ frame_skip_counter = 0
    /\ ai_every = 0
    /\ frame_counter_ = 0
    /\ ai_frame_counter_ = 0
    /\ detection_counter_ = 0
    /\ stats_ = [total_frames |-> 0, ai_frames |-> 0, detections_count |-> 0]
    /\ results = <<>>
    /\ video_started = FALSE
    /\ detector_ready = FALSE
    /\ db_connected = FALSE
    /\ db_inserted = 0
    /\ enqueued = <<>>
    /\ processed = <<>>
    /\ run_ks = <<>>
    /\ pushes_since_pop = 0
    /\ starts = 0
    /\ capture_thread_ = 0
    /\ processing_thread_ = 0
    /\ stopped_at = 0
    /\ init_returned = "none"
    /\ cooldown_mutex_ = "free"
    /\ accessed = {}

\* Before extractBestPlateCandidates and calculateFormatScore are called.
NoCandidates ==
    /\ candidates = <<>>
    /\ cand_thrown = FALSE
    /\ format_score = 0

\* The validator at rest.
ValidatorIdle ==
    /\ raw_text = <<>>
    /\ clean_text = <<>>
    /\ normalized = <<>>
    /\ renormalized = <<>>
    /\ val_pc = "idle"
    /\ NoCandidates

\* cv::Mat frame as detect() and processFrame see it: its size (0x0: empty).
EmptyFrame == [cols |-> 0, rows |-> 0]

\* No detect() call: the detector is not initialized.
NoDetectCall ==
    [initialized |-> FALSE, frame |-> EmptyFrame, forward |-> "ok", num_features |-> 5]

\* The detector's caller before any call.
DetectCallerIdle ==
    /\ det_call = NoDetectCall
    /\ det_thrown = FALSE
    /\ rois = <<>>

\* The detector at rest.
DetectorIdle ==
    /\ decoded = <<>>
    /\ detections = <<>>
    /\ indices = <<>>
    /\ filtered_detections = <<>>
    /\ det_pc = "idle"
    /\ DetectCallerIdle

\* Images given to recognize(): rows x cols pixels, of which calculateImageHash
\* samples some (sample stands for their values, other for all the rest).
EmptyImage == [rows |-> 0, cols |-> 0, sample |-> 0, other |-> 0]

Images ==
    [rows : {10}, cols : {10}, sample : 0..1, other : 0..1] \cup {EmptyImage}

\* std::string OCRProcessor::calculateImageHash(image): the dimensions and
\* the sampled pixels (ocr_processor.cpp:205-219)
calculateImageHash(image) == <<image.rows, image.cols, image.sample>>

\* OCRResult(): no text
DefaultResult == [text |-> "", confidence |-> 0]

\* What recognizeInternal can return.
EngineResults ==
    {DefaultResult, [text |-> "ABC123", confidence |-> 90],
     [text |-> "CD1234", confidence |-> 60]}

\* No result: recognizeMultipleAttempts has not returned.
NoResult == [text |-> "", confidence |-> -1]

\* Before the first recognizeMultipleAttempts call.
NoAttempts ==
    [calls |-> 0, tried |-> <<>>, seen |-> {}, after_variants |-> -1, early |-> FALSE,
     after_high |-> FALSE, cached |-> FALSE, returned |-> NoResult]

\* The OCR processor after its constructor.
OcrConstructed ==
    /\ ocr_initialized_ = FALSE
    /\ ocr_cache_ = <<>>
    /\ insert_order = <<>>
    /\ ocr_pc = "idle"
    /\ plate_image = EmptyImage
    /\ use_cache = FALSE
    /\ ocr_result = DefaultResult
    /\ engine_calls = 0
    /\ ocr_log = <<>>
    /\ binary_index = 0
    /\ best_result = DefaultResult
    /\ best_confidence = 0
    /\ attempt_hist = NoAttempts

\* The components the pipeline calls into, before any call.
LibIdle ==
    /\ cache_mutex_ = "free"
    /\ ValidatorIdle
    /\ DetectorIdle
    /\ OcrConstructed

\* No event was handed to saveDetection.
NoEvent == [plate |-> "", timestamp |-> NoEntry, gap |-> NoEntry]

\* processFrame has no candidate in hand and nothing was saved.
SinkIdle ==
    /\ result_timestamp = NoEntry
    /\ saved_at = [p \in Plates |-> NoEntry]
    /\ last_event = NoEvent

\* checkCooldown is exercised on its own with the cooldown that initialize()
\* copies from the configuration.
CooldownInit ==
    /\ \E cd \in CooldownValues :
          /\ Constructed(cd, 2)
          /\ cooldown_seconds_ = cd
    /\ cli = NoOptions
    /\ log_accesses = FALSE
    /\ LibIdle
    /\ detection_cooldown_ = [p \in Plates |-> NoEntry]
    /\ now = 0
    /\ last_check = NoCheck
    /\ prev_accept = [p \in Plates |-> NoEntry]
    /\ supp_since = [p \in Plates |-> FALSE]
    /\ SinkIdle

\* The history kept about one checkCooldown(p) call made at time t with result ok.
CheckHistory(p, t, ok) ==
    /\ last_check' = [plate |-> p, ok |-> ok,
                      gap |-> IF prev_accept[p] = NoEntry THEN NoEntry
                              ELSE t - prev_accept[p],
                      after_supp |-> supp_since[p]]
    /\ prev_accept' = IF ok THEN [prev_accept EXCEPT ![p] = t] ELSE prev_accept
    /\ supp_since' = [supp_since EXCEPT ![p] = ~ok]

\* One call checkCooldown(p) whose system_clock::now() reads t.
CheckCooldownCall(p, t) ==
    /\ t >= now
    /\ LET r == checkCooldown(detection_cooldown_, p, t, cooldown_seconds_)
       IN  /\ detection_cooldown_' = r.map
           /\ CheckHistory(p, t, r.ok)
    /\ now' = t
    /\ UNCHANGED <<cooldown_seconds_, pipeVars, result_timestamp, saved_at, last_event>>

\* ------------------------------- SpecSink: the events handed to saveDetection
\* The timestamp of the event is the one set at the head of the loop body,
\* result.timestamp = system_clock::now()   (lpr_system.cpp:298)
EventTimestamp(stamp, check_time) == stamp

\* The head of the loop over the detections: result.timestamp is read from
\* the clock before the region is cropped and recognized.
StampResult(t) ==
    /\ result_timestamp = NoEntry
    /\ t >= now
    /\ result_timestamp' = t
    /\ now' = t
    /\ UNCHANGED <<detection_cooldown_, cooldown_seconds_, last_check, prev_accept,
                   supp_since, saved_at, last_event, pipeVars>>

\* OCR gave no text or no plate: continue   (lpr_system.cpp:318-329)
CandidateDropped ==
    /\ result_timestamp # NoEntry
    /\ result_timestamp' = NoEntry
    /\ UNCHANGED <<detection_cooldown_, cooldown_seconds_, now, last_check, prev_accept,
                   supp_since, saved_at, last_event, pipeVars>>

\* OCR and normalization gave plate p; checkCooldown(p) reads the clock at t;
\* an accepted result is returned and handed to saveDetection
\* (lpr_system.cpp:315-342, 250-257)
CandidateChecked(p, t) ==
    /\ result_timestamp # NoEntry
    /\ t >= now
    /\ LET r == checkCooldown(detection_cooldown_, p, t, cooldown_seconds_)
           ts == EventTimestamp(result_timestamp, t)
       IN  /\ detection_cooldown_' = r.map
           /\ CheckHistory(p, t, r.ok)
           /\ IF r.ok
              THEN /\ last_event' = [plate |-> p, timestamp |-> ts,
                                     gap |-> IF saved_at[p] = NoEntry THEN NoEntry
                                             ELSE ts - saved_at[p]]
                   /\ saved_at' = [saved_at EXCEPT ![p] = ts]
              ELSE UNCHANGED <<saved_at, last_event>>
    /\ now' = t
    /\ result_timestamp' = NoEntry
    /\ UNCHANGED <<cooldown_seconds_, pipeVars>>

SinkNext ==
    \/ \E t \in 0..MaxSinkTime : StampResult(t)
    \/ CandidateDropped
    \/ \E p \in Plates, t \in 0..MaxSinkTime : CandidateChecked(p, t)

SpecSink == CooldownInit /\ [][SinkNext]_vars

CooldownNext == \E p \in Plates, t \in 0..MaxTime : CheckCooldownCall(p, t)

SpecCooldown == CooldownInit /\ [][CooldownNext]_vars

\* ------------------------------------------------------ pipeline helpers
\* Detection outcomes of one frame: for each candidate the detector returned,
\* the normalized plate text, or "" when OCR or normalization gave nothing.
DetectionLists ==
    UNION {[1..n -> PipePlates \cup {""}] : n \in 0..MaxDets}

\* The loop over the detections in processFrame (lpr_system.cpp:294-345):
\* candidates without text are skipped, the others go through checkCooldown.
RECURSIVE ProcessDetections(_, _, _, _)
ProcessDetections(dets, map, t, cd) ==
    IF dets = <<>> THEN [map |-> map, results |-> <<>>]
    ELSE IF Head(dets) = "" THEN ProcessDetections(Tail(dets), map, t, cd)
    ELSE LET r == checkCooldown(map, Head(dets), t, cd)
             rest == ProcessDetections(Tail(dets), r.map, t, cd)
         IN  [map |-> rest.map,
              results |-> IF r.ok THEN <<Head(dets)>> \o rest.results
                          ELSE rest.results]

\* Plates registered as authorized in the database (registered_vehicles).
AuthorizedPlates == {"ABC123"}

\* An authorization that asks the database without looking at the connection.
Authorized_NoCheck(plate, connected) == plate \in AuthorizedPlates

\* if (db_manager_ && db_manager_->isConnected())
\*     result.authorized = db_manager_->isAuthorized(normalized);
\* on a DetectionResult constructed with authorized(false)  (lpr_system.cpp:337-340)
Authorized(plate, connected) == connected /\ plate \in AuthorizedPlates

\* The DetectionResult pushed for each accepted plate: a normalized text
\* always has the Colombian format, so valid is true.
DetectionResults(plates, connected) ==
    [i \in 1..Len(plates) |->
        [plate_text |-> plates[i], valid |-> TRUE,
         authorized |-> Authorized(plates[i], connected)]]

\* detect() returns an empty list when the detector is not initialized.
processFrame(dets, map, t, cd) ==
    ProcessDetections(IF detector_ready THEN dets ELSE <<>>, map, t, cd)

\* Capture thread: pop without looking at the size.
PushFrame_NoEvict(q, f) == Append(q, f)

\* Capture thread: the bounded push (lpr_system.cpp:185-189)
PushFrame(q, f) ==
    Append(IF Len(q) >= MaxQueueSize THEN Tail(q) ELSE q, f)

\* Processing thread: takes the newest frame.
QueueFront_Back(q) == q[Len(q)]

\* frame_queue_.front()
QueueFront(q) == Head(q)

\* Processing thread: pop that removes the newest frame.
QueuePop_Back(q) == SubSeq(q, 1, Len(q) - 1)

\* frame_queue_.pop()
QueuePop(q) == Tail(q)

\* Cadence test on the counter before its increment.
Selected_BeforeIncrement(k, n) == (k - 1) % n = 0

\* frame_skip_counter % ai_every == 0, k the counter after its increment
Selected(k, n) == k % n = 0

\* A loop that ignores the shutdown flag.
LoopContinues_Always(flag) == TRUE

\* while (running_)
LoopContinues(flag) == flag

\* A stop() that lets go of a thread without waiting for it (detach).
ThreadJoined_NoWait(pc) == TRUE

\* thread.join() returns once the thread function has returned
ThreadJoined(pc) == pc \in {"done", "none"}

\* The locks of the shared-resource policy and their holders.
Locks == {"frame_queue_mutex_", "cooldown_mutex_", "cache_mutex_"}

LockHolder(m) ==
    CASE m = "frame_queue_mutex_" -> frame_queue_mutex_
      [] m = "cooldown_mutex_"    -> cooldown_mutex_
      [] OTHER                    -> cache_mutex_

HeldBy(th) == {m \in Locks : LockHolder(m) = th}

\* One access of loop th to member v (w: it writes) made holding the locks held.
Access(th, v, w, held) == [th |-> th, var |-> v, w |-> w, held |-> held]

\* The accesses are recorded in the specification that checks them.
Log(entries) ==
    /\ accessed' = IF log_accesses THEN accessed \cup entries ELSE accessed
    /\ UNCHANGED log_accesses

\* A dequeue scope that keeps the queue lock for the rest of the iteration.
QueueScopeEnd_Held(holder) == holder

\* } closing the lock_guard scope of the dequeue (lpr_system.cpp:218)
QueueScopeEnd(holder) == "free"

\* ------------------------------------------------------- control thread
PipeConstructed ==
    /\ \E cd \in PipeCooldowns, n \in CadenceValues : Constructed(cd, n)
    /\ cooldown_seconds_ = DefaultCooldown
    /\ LibIdle
    /\ detection_cooldown_ = [p \in Plates |-> NoEntry]
    /\ now = 0
    /\ last_check = NoCheck
    /\ prev_accept = [p \in Plates |-> NoEntry]
    /\ supp_since = [p \in Plates |-> FALSE]
    /\ SinkIdle

\* main() run without options: g_lpr_system = make_unique<LPRSystem>(config_path)
PipeInit == PipeConstructed /\ cli = NoOptions /\ log_accesses = FALSE

\* main() run with any of the command lines.
CliInit == PipeConstructed /\ cli \in CliOptions /\ log_accesses = FALSE

\* What initialize() returns: false when the video source does not start
\* (lpr_system.cpp:58-61) or the OCR does not come up (80-83), true otherwise.
InitializeReturns(vc_ok, ocr_ok) ==
    IF ~vc_ok THEN "false: video"
    ELSE IF ~ocr_ok THEN "false: ocr"
    ELSE "true"

\* bool LPRSystem::initialize(); the four inputs say which components come up.
Initialize(vc_ok, det_ok, ocr_ok, db_ok) ==
    /\ ctl_pc = "idle"
    /\ ~initialized_
    /\ video_started' = vc_ok
    /\ detector_ready' = IF vc_ok THEN det_ok ELSE detector_ready
    /\ IF vc_ok /\ ocr_ok
       THEN /\ db_connected' = db_ok
            /\ cooldown_seconds_' = config_.detection_cooldown_sec
            /\ initialized_' = TRUE
       ELSE UNCHANGED <<db_connected, cooldown_seconds_, initialized_>>
    /\ ocr_initialized_' = IF vc_ok THEN ocr_ok ELSE ocr_initialized_
    /\ init_returned' = InitializeReturns(vc_ok, ocr_ok)
    /\ UNCHANGED <<capture_thread_, processing_thread_, stopped_at>>
    /\ UNCHANGED <<detection_cooldown_, now, histVars, config_, cli, running_, ctl_pc,
                   starts, capVars, procVars, queueVars, db_inserted>>
    /\ UNCHANGED <<cooldown_mutex_, logVars, cache_mutex_, valVars, detVars, ocr_cache_,
                   insert_order, ocr_pc, plate_image, use_cache, ocr_result, engine_calls,
                   ocr_log, attemptVars>>

\* A start() that only looks at the running flag.
StartReturnsEarly_RunningOnly(initialized, running) == running

\* A start() that only looks at the initialized flag.
StartReturnsEarly_UninitializedOnly(initialized, running) == ~initialized

\* if (!initialized_) return; if (running_) return;   (lpr_system.cpp:113-121)
StartReturnsEarly(initialized, running) == ~initialized \/ running

\* void LPRSystem::start(): past the early returns it sets the flag and
\* launches the two threads  (lpr_system.cpp:123-128)
Start ==
    /\ ctl_pc = "idle"
    /\ ~StartReturnsEarly(initialized_, running_)
    /\ starts < MaxStarts
    /\ running_' = TRUE
    /\ cap_pc' = "loop"
    /\ proc_pc' = "init"
    /\ capture_thread_' = capture_thread_ + 1
    /\ processing_thread_' = processing_thread_ + 1
    /\ starts' = starts + 1
    /\ UNCHANGED <<stopped_at, init_returned, cdVars, config_, cli, initialized_, ctl_pc, cap_frame, frame_counter_,
                   proc_frame, frame_skip_counter, ai_every, ai_frame_counter_,
                   detection_counter_, stats_, results, processed, run_ks, queueVars, devVars>>
    /\ UNCHANGED <<cooldown_mutex_, logVars, libVars>>

\* void LPRSystem::stop(): clears the flag, then joins and releases
StopBegin ==
    /\ ctl_pc = "idle"
    /\ running_
    /\ running_' = FALSE
    /\ ctl_pc' = "join_capture"
    /\ UNCHANGED <<thrVars, cdVars, config_, cli, initialized_, starts, capVars, procVars, queueVars,
                   devVars>>
    /\ UNCHANGED <<cooldown_mutex_, logVars, libVars>>

StopJoinCapture ==
    /\ ctl_pc = "join_capture"
    /\ ThreadJoined(cap_pc)
    /\ ctl_pc' = "join_processing"
    /\ UNCHANGED <<thrVars, cdVars, config_, cli, initialized_, running_, starts, capVars, procVars,
                   queueVars, devVars>>
    /\ UNCHANGED <<cooldown_mutex_, logVars, libVars>>

StopJoinProcessing ==
    /\ ctl_pc = "join_processing"
    /\ ThreadJoined(proc_pc)
    /\ ctl_pc' = "stop_video"
    /\ UNCHANGED <<thrVars, cdVars, config_, cli, initialized_, running_, starts, capVars, procVars,
                   queueVars, devVars>>
    /\ UNCHANGED <<cooldown_mutex_, logVars, libVars>>

\* video_capture_->stop()
StopVideo ==
    /\ ctl_pc = "stop_video"
    /\ video_started' = FALSE
    /\ ctl_pc' = "disconnect"
    /\ UNCHANGED <<thrVars, cdVars, config_, cli, initialized_, running_, starts, capVars, procVars,
                   queueVars, detector_ready, db_connected, db_inserted>>
    /\ UNCHANGED <<cooldown_mutex_, logVars, libVars>>

\* db_manager_->disconnect(); stop() returns
StopDisconnect ==
    /\ ctl_pc = "disconnect"
    /\ db_connected' = FALSE
    /\ stopped_at' = frame_counter_
    /\ ctl_pc' = "idle"
    /\ UNCHANGED <<capture_thread_, processing_thread_, init_returned, cdVars, config_, cli,
                   initialized_,
                   running_, starts, capVars, procVars,
                   queueVars, video_started, detector_ready, db_inserted>>
    /\ UNCHANGED <<cooldown_mutex_, logVars, libVars>>

StopStep == StopJoinCapture \/ StopJoinProcessing \/ StopVideo \/ StopDisconnect

\* -------------------------------------------------------- capture thread
\* while (running_) { cv::Mat frame; ...
CapLoop ==
    /\ cap_pc = "loop"
    /\ IF LoopContinues(running_)
       THEN /\ cap_pc' = "get"
            /\ UNCHANGED capture_thread_
       ELSE /\ cap_pc' = "done"
            /\ capture_thread_' = capture_thread_ - 1
    /\ cap_frame' = NoFrame
    /\ UNCHANGED <<processing_thread_, stopped_at, init_returned, cdVars, ctlVars, frame_counter_, procVars,
                   queueVars, devVars>>
    /\ Log({Access("capture", "running_", FALSE, {})})
    /\ UNCHANGED <<cooldown_mutex_, libVars>>

\* video_capture_->getFrame(frame): fails when the source is stopped or has
\* no frame, then sleep_for(10 ms); continue; on success frame_counter_++.
CapGetFrame(ok) ==
    /\ cap_pc = "get"
    /\ ok => (video_started /\ frame_counter_ < MaxFrames)
    /\ IF ok
       THEN /\ frame_counter_' = frame_counter_ + 1
            /\ cap_frame' = frame_counter_ + 1
            /\ cap_pc' = "lock"
       ELSE /\ cap_pc' = "loop"
            /\ UNCHANGED <<frame_counter_, cap_frame>>
    /\ UNCHANGED <<thrVars, cdVars, ctlVars, procVars, queueVars, devVars>>
    /\ Log(IF ok THEN {Access("capture", "frame_counter_", TRUE, {})} ELSE {})
    /\ UNCHANGED <<cooldown_mutex_, libVars>>

\* std::lock_guard<std::mutex> lock(frame_queue_mutex_);
CapLock ==
    /\ cap_pc = "lock"
    /\ frame_queue_mutex_ = "free"
    /\ frame_queue_mutex_' = "capture"
    /\ cap_pc' = "push"
    /\ UNCHANGED <<thrVars, cdVars, ctlVars, cap_frame, frame_counter_, procVars, frame_queue_,
                   enqueued, pushes_since_pop, devVars>>
    /\ Log({})
    /\ UNCHANGED <<cooldown_mutex_, libVars>>

\* if (size >= max_queue_size_) pop(); push(frame.clone()); end of the scope;
\* sleep_for(1 ms)
CapPush ==
    /\ cap_pc = "push"
    /\ frame_queue_' = PushFrame(frame_queue_, cap_frame)
    /\ frame_queue_mutex_' = "free"
    /\ enqueued' = Append(enqueued, cap_frame)
    /\ pushes_since_pop' = pushes_since_pop + 1
    /\ cap_pc' = "loop"
    /\ UNCHANGED <<thrVars, cdVars, ctlVars, cap_frame, frame_counter_, procVars, devVars>>
    /\ Log({Access("capture", "frame_queue_", TRUE, HeldBy("capture"))})
    /\ UNCHANGED <<cooldown_mutex_, libVars>>

CaptureStep ==
    \/ CapLoop
    \/ \E ok \in BOOLEAN : CapGetFrame(ok)
    \/ CapLock
    \/ CapPush

\* ----------------------------------------------------- processing thread
\* int ai_every = config_.getInt(...); int frame_skip_counter = 0;
ProcInit ==
    /\ proc_pc = "init"
    /\ ai_every' = config_.ai_process_every
    /\ frame_skip_counter' = 0
    /\ run_ks' = <<>>
    /\ proc_pc' = "loop"
    /\ UNCHANGED <<thrVars, cdVars, ctlVars, capVars, proc_frame, ai_frame_counter_,
                   detection_counter_, stats_, results, processed, queueVars, devVars>>
    /\ Log({Access("processing", "config_", FALSE, {})})
    /\ UNCHANGED <<cooldown_mutex_, libVars>>

\* while (running_) { cv::Mat frame; ...
ProcLoop ==
    /\ proc_pc = "loop"
    /\ IF LoopContinues(running_)
       THEN /\ proc_pc' = "lock"
            /\ UNCHANGED processing_thread_
       ELSE /\ proc_pc' = "done"
            /\ processing_thread_' = processing_thread_ - 1
    /\ proc_frame' = NoFrame
    /\ results' = <<>>
    /\ UNCHANGED <<capture_thread_, stopped_at, init_returned, cdVars, ctlVars, capVars, frame_skip_counter, ai_every,
                   ai_frame_counter_, detection_counter_, stats_, processed, run_ks,
                   queueVars, devVars>>
    /\ Log({Access("processing", "running_", FALSE, {})})
    /\ UNCHANGED <<cooldown_mutex_, libVars>>

\* std::lock_guard<std::mutex> lock(frame_queue_mutex_);
ProcLock ==
    /\ proc_pc = "lock"
    /\ frame_queue_mutex_ = "free"
    /\ frame_queue_mutex_' = "processing"
    /\ proc_pc' = "locked"
    /\ UNCHANGED <<thrVars, cdVars, ctlVars, capVars, proc_frame, frame_skip_counter, ai_every,
                   ai_frame_counter_, detection_counter_, stats_, results, processed, run_ks,
                   frame_queue_, enqueued, pushes_since_pop, devVars>>
    /\ Log({})
    /\ UNCHANGED <<cooldown_mutex_, libVars>>

\* if (empty()) { sleep ... } else { frame = front(); pop(); } end of the scope
ProcDequeue ==
    /\ proc_pc = "locked"
    /\ IF frame_queue_ = <<>>
       THEN /\ proc_pc' = "sleep_locked"
            /\ UNCHANGED <<proc_frame, queueVars>>
       ELSE /\ proc_frame' = QueueFront(frame_queue_)
            /\ frame_queue_' = QueuePop(frame_queue_)
            /\ frame_queue_mutex_' = QueueScopeEnd(frame_queue_mutex_)
            /\ pushes_since_pop' = 0
            /\ proc_pc' = "select"
            /\ UNCHANGED enqueued
    /\ UNCHANGED <<thrVars, cdVars, ctlVars, capVars, frame_skip_counter, ai_every,
                   ai_frame_counter_, detection_counter_, stats_, results, processed, run_ks,
                   devVars>>
    /\ Log({Access("processing", "frame_queue_", frame_queue_ # <<>>,
                    HeldBy("processing"))})
    /\ UNCHANGED <<cooldown_mutex_, libVars>>

\* sleep_for(10 ms) inside the lock scope; continue; releases the lock
ProcSleepEmpty ==
    /\ proc_pc = "sleep_locked"
    /\ frame_queue_mutex_' = "free"
    /\ proc_pc' = "loop"
    /\ UNCHANGED <<thrVars, cdVars, ctlVars, capVars, proc_frame, frame_skip_counter, ai_every,
                   ai_frame_counter_, detection_counter_, stats_, results, processed, run_ks,
                   frame_queue_, enqueued, pushes_since_pop, devVars>>
    /\ Log({})
    /\ UNCHANGED <<cooldown_mutex_, libVars>>

\* frame_skip_counter++; if (frame_skip_counter % ai_every == 0) ... else
\* the frame is only displayed, then sleep_for(1 ms)
ProcSelect ==
    /\ proc_pc = "select"
    /\ frame_skip_counter' = frame_skip_counter + 1
    /\ IF Selected(frame_skip_counter + 1, ai_every)
       THEN proc_pc' = "process"
       ELSE proc_pc' = "loop"
    /\ UNCHANGED <<thrVars, cdVars, ctlVars, capVars, proc_frame, ai_every, ai_frame_counter_,
                   detection_counter_, stats_, results, processed, run_ks, queueVars, devVars>>
    /\ Log({})
    /\ UNCHANGED <<cooldown_mutex_, libVars>>

\* Plate texts among the candidates of one frame that reach checkCooldown.
HasText(dets) == \E i \in 1..Len(dets) : dets[i] # ""

\* processFrame reaches its first checkCooldown call:
\* std::lock_guard<std::mutex> lock(cooldown_mutex_);   (lpr_system.cpp:384)
ProcCooldownLock ==
    /\ proc_pc = "process"
    /\ detector_ready
    /\ cooldown_mutex_ = "free"
    /\ cooldown_mutex_' = "processing"
    /\ proc_pc' = "cooldown"
    /\ UNCHANGED <<thrVars, cdVars, ctlVars, capVars, proc_frame, frame_skip_counter, ai_every,
                   ai_frame_counter_, detection_counter_, stats_, results, processed, run_ks,
                   queueVars, devVars, logVars, libVars>>

\* The selected branch (lpr_system.cpp:223-269): processFrame on the frame
\* (from "cooldown" when a candidate has text, and the lock is released when
\* checkCooldown returns), ai_frame_counter_++, for each result
\* detection_counter_++ and saveDetection, then updateStats (time has passed
\* since start()) and sleep_for(1 ms). updateStats reads frame_counter_ while
\* captureThread may be writing it: the value read, tf, is any value the
\* counter took since the frame in hand was captured.
ProcProcessFrame(dets, t, tf) ==
    /\ proc_pc \in {"process", "cooldown"}
    /\ (proc_pc = "cooldown") <=> (detector_ready /\ HasText(dets))
    /\ t >= now
    /\ tf \in proc_frame..frame_counter_
    /\ LET r == processFrame(dets, detection_cooldown_, t, cooldown_seconds_)
           n == Len(r.results)
       IN  /\ detection_cooldown_' = r.map
           /\ results' = DetectionResults(r.results, db_connected)
           /\ detection_counter_' = detection_counter_ + n
           /\ db_inserted' = IF db_connected THEN db_inserted + n ELSE db_inserted
           /\ stats_' = [total_frames |-> tf,
                         ai_frames |-> ai_frame_counter_ + 1,
                         detections_count |-> detection_counter_ + n]
    /\ now' = t
    /\ cooldown_mutex_' = "free"
    /\ ai_frame_counter_' = ai_frame_counter_ + 1
    /\ processed' = Append(processed, proc_frame)
    /\ run_ks' = Append(run_ks, frame_skip_counter)
    /\ proc_pc' = "loop"
    /\ Log({Access("processing", "config_", FALSE, {}),
            Access("processing", "ai_frame_counter_", TRUE, {}),
            Access("processing", "detection_counter_", TRUE, {}),
            Access("processing", "frame_counter_", FALSE, {}),
            Access("processing", "stats_", TRUE, {})}
           \cup (IF proc_pc = "cooldown"
                 THEN {Access("processing", "detection_cooldown_", TRUE,
                              HeldBy("processing"))}
                 ELSE {}))
    /\ UNCHANGED <<thrVars, cooldown_seconds_, histVars, ctlVars, capVars, proc_frame,
                   frame_skip_counter, ai_every, queueVars, video_started,
                   detector_ready, db_connected, libVars>>

ProcessingStep ==
    \/ ProcInit
    \/ ProcLoop
    \/ ProcLock
    \/ ProcDequeue
    \/ ProcSleepEmpty
    \/ ProcSelect
    \/ ProcCooldownLock
    \/ /\ proc_pc \in {"process", "cooldown"}
       /\ \E dets \in DetectionLists, t \in now..MaxPipeTime,
             tf \in proc_frame..frame_counter_ :
              ProcProcessFrame(dets, t, tf)

\* ------------------------------------------------------- specifications
ControlStep ==
    \/ \E vc_ok, det_ok, ocr_ok, db_ok \in BOOLEAN : Initialize(vc_ok, det_ok, ocr_ok, db_ok)
    \/ Start
    \/ StopBegin
    \/ StopStep

Next == ControlStep \/ CaptureStep \/ ProcessingStep

Spec == PipeInit /\ [][Next]_vars

\* The pipeline started by main() with and without command-line options.
SpecCli == CliInit /\ [][Next]_vars

\* The pipeline with the accesses of its two loops recorded.
AccessInit == PipeConstructed /\ cli = NoOptions /\ log_accesses = TRUE

SpecAccess == AccessInit /\ [][Next]_vars

\* Each thread that can take a step eventually takes one, and a stop() that
\* has begun goes on as soon as its join returns. Checked for the default
\* cadence divisor (config_manager.cpp:109).
FairInit == PipeInit /\ config_.ai_process_every = 2

FairSpec ==
    /\ FairInit
    /\ [][Next]_vars
    /\ WF_vars(CaptureStep)
    /\ WF_vars(ProcessingStep)
    /\ WF_vars(StopStep)

\* ------------------------------------------------------- PlateValidator
\* Characters of the texts: a text is a sequence of one-character strings.
UpperLetters == {"A", "B", "C", "D", "X", "Y"}

LowerLetters == {"a", "b", "c", "d"}

Digits == {"1", "2", "3", "4", "5"}

Separators == {" ", "-"}

\* std::isalnum(c)
isalnum(c) == c \in UpperLetters \cup LowerLetters \cup Digits

\* std::toupper(c)
toupper(c) ==
    CASE c = "a" -> "A"
      [] c = "b" -> "B"
      [] c = "c" -> "C"
      [] c = "d" -> "D"
      [] OTHER   -> c

\* A cleanText that keeps the case of the letters.
RECURSIVE cleanText_KeepCase(_)
cleanText_KeepCase(text) ==
    IF text = <<>> THEN <<>>
    ELSE (IF isalnum(Head(text)) THEN <<Head(text)>> ELSE <<>>)
         \o cleanText_KeepCase(Tail(text))

\* std::string PlateValidator::cleanText(text)   (detector.cpp:262-273)
RECURSIVE cleanText(_)
cleanText(text) ==
    IF text = <<>> THEN <<>>
    ELSE (IF isalnum(Head(text)) THEN <<toupper(Head(text))>> ELSE <<>>)
         \o cleanText(Tail(text))

\* [A-Z]{3}[0-9]{3} matches the whole of s
PATTERN_STANDARD(s) ==
    /\ Len(s) = 6
    /\ \A i \in 1..3 : s[i] \in UpperLetters
    /\ \A i \in 4..6 : s[i] \in Digits

\* CD[0-9]{4} matches the whole of s
PATTERN_DIPLOMATIC(s) ==
    /\ Len(s) = 6
    /\ s[1] = "C" /\ s[2] = "D"
    /\ \A i \in 3..6 : s[i] \in Digits

\* std::regex_match(s, pattern)
regex_match(s, pattern) ==
    IF pattern = "STANDARD" THEN PATTERN_STANDARD(s) ELSE PATTERN_DIPLOMATIC(s)

\* Positions of text at which a match of the pattern starts.
MatchStarts(text, pattern) ==
    {i \in 1..(Len(text) - 5) : regex_match(SubSeq(text, i, i + 5), pattern)}

\* A search that returns the rightmost match.
regex_search_Last(text, pattern) ==
    LET starts_ == MatchStarts(text, pattern)
    IN  IF starts_ = {} THEN <<>>
        ELSE LET i == CHOOSE j \in starts_ : \A k \in starts_ : k <= j
             IN  SubSeq(text, i, i + 5)

\* std::regex_search(text, match, pattern): match.str() of the leftmost match,
\* or the empty text when nothing matches
regex_search(text, pattern) ==
    LET starts_ == MatchStarts(text, pattern)
    IN  IF starts_ = {} THEN <<>>
        ELSE LET i == CHOOSE j \in starts_ : \A k \in starts_ : j <= k
             IN  SubSeq(text, i, i + 5)

\* A validity test that looks at the length only.
isValidColombianFormat_LengthOnly(plate_text) == Len(plate_text) = 6

\* bool PlateValidator::isValidColombianFormat(plate_text)  (detector.cpp:312-328)
isValidColombianFormat(plate_text) ==
    /\ Len(plate_text) = 6
    /\ \/ regex_match(plate_text, "STANDARD")
       \/ regex_match(plate_text, "DIPLOMATIC")

\* "Validar que sea formato colombiano valido"  (detector.cpp:304-309)
ValidOrEmpty(text) == IF isValidColombianFormat(text) THEN text ELSE <<>>

\* The branch for more than 6 characters with the diplomatic search first.
SearchPlate_DiplomaticFirst(text) ==
    LET std == regex_search(text, "STANDARD")
        dip == regex_search(text, "DIPLOMATIC")
    IN  IF dip # <<>> THEN SubSeq(dip, 1, 6)
        ELSE IF std # <<>> THEN SubSeq(std, 1, 6)
        ELSE ValidOrEmpty(SubSeq(text, 1, 6))

\* if (clean_text.length() > 6) { ... }   (detector.cpp:288-302), then 304-309
SearchPlate(text) ==
    LET std == regex_search(text, "STANDARD")
        dip == regex_search(text, "DIPLOMATIC")
    IN  IF std # <<>> THEN SubSeq(std, 1, 6)
        ELSE IF dip # <<>> THEN SubSeq(dip, 1, 6)
        ELSE ValidOrEmpty(SubSeq(text, 1, 6))

\* A length test that also rejects six characters.
TooShort_Inclusive(len) == len <= 6

\* if (clean_text.length() < 6) return "";   (detector.cpp:283-285)
TooShort(len) == len < 6

\* std::string PlateValidator::normalizeColombianPlate(raw_text)
normalizeColombianPlate(text) ==
    IF text = <<>> THEN <<>>
    ELSE LET clean == cleanText(text)
         IN  IF TooShort(Len(clean)) THEN <<>>
             ELSE IF Len(clean) > 6 THEN SearchPlate(clean)
             ELSE ValidOrEmpty(clean)

\* std::isalpha(c), std::isdigit(c) in the "C" locale
isalpha(c) == c \in UpperLetters \cup LowerLetters

isdigit(c) == c \in Digits

\* double PlateValidator::calculateFormatScore(text)  (detector.cpp:382-400),
\* in hundredths: the tests are made on the characters, not with the regexes
calculateFormatScore(text) ==
    LET score ==
            IF Len(text) = 6
            THEN IF /\ isalpha(text[1]) /\ isalpha(text[2]) /\ isalpha(text[3])
                    /\ isdigit(text[4]) /\ isdigit(text[5]) /\ isdigit(text[6])
                 THEN 90
                 ELSE IF /\ SubSeq(text, 1, 2) = <<"C", "D">>
                         /\ isdigit(text[3]) /\ isdigit(text[4])
                         /\ isdigit(text[5]) /\ isdigit(text[6])
                      THEN 95
                      ELSE 0
            ELSE 0
    IN  IF score < 100 THEN score ELSE 100

\* size_t is unsigned: its arithmetic is modulo 2^w. The model keeps w = 16,
\* wide enough for the difference of two text lengths to wrap far above any
\* length.
SizeModulus == 65536

\* "i <= clean_text.length() - 6": the last start the loop of
\* extractBestPlateCandidates tries  (detector.cpp:340)
LastStart(len) == (len - 6) % SizeModulus

\* clean_text.substr(i, 6) throws std::out_of_range when i > length(); the
\* loop tries every start from 0 to LastStart (i counted from 0).
SubstrThrows(len) == LastStart(len) > len

\* std::find(candidates.begin(), candidates.end(), candidate) != end()
Found(cands, candidate) == \E i \in 1..Len(cands) : cands[i] = candidate

\* if (std::find(...) == candidates.end()) candidates.push_back(candidate);
PushNew(cands, candidate) ==
    IF Found(cands, candidate) THEN cands ELSE Append(cands, candidate)

\* for (i = 0; i <= length - 6; ++i): the valid substrings of 6 characters
\* from start i (counted from 1) on  (detector.cpp:340-347)
RECURSIVE ValidSubstrings(_, _, _)
ValidSubstrings(text, i, cands) ==
    IF i + 5 > Len(text) THEN cands
    ELSE LET candidate == SubSeq(text, i, i + 5)
         IN  ValidSubstrings(text, i + 1,
                 IF isValidColombianFormat(candidate)
                 THEN PushNew(cands, candidate) ELSE cands)

\* while (std::regex_search(search_text, match, pattern)) { ...;
\* search_text = match.suffix().str(); }   (detector.cpp:354-360, 364-370)
RECURSIVE ScanMatches(_, _, _)
ScanMatches(search_text, pattern, cands) ==
    LET starts_ == MatchStarts(search_text, pattern)
    IN  IF starts_ = {} THEN cands
        ELSE LET i == CHOOSE j \in starts_ : \A k \in starts_ : j <= k
                 match == SubSeq(search_text, i, i + 5)
             IN  ScanMatches(SubSeq(search_text, i + 6, Len(search_text)), pattern,
                             PushNew(cands, SubSeq(match, 1, 6)))

\* A comparator that puts the lower score first.
ScoreBefore_Ascending(a, b) == calculateFormatScore(a) < calculateFormatScore(b)

\* The comparator of the std::sort: score_a > score_b  (detector.cpp:373-377)
ScoreBefore(a, b) == calculateFormatScore(a) > calculateFormatScore(b)

\* What std::sort may leave in the vector: a permutation of it in which no
\* element is followed by one the comparator puts before it (std::sort is
\* not stable: the order of elements with equal scores is not fixed).
Sorted(cands) ==
    {out \in [1..Len(cands) -> {cands[i] : i \in 1..Len(cands)}] :
        /\ \A c \in {cands[i] : i \in 1..Len(cands)} :
               Cardinality({i \in 1..Len(cands) : out[i] = c})
                   = Cardinality({i \in 1..Len(cands) : cands[i] = c})
        /\ \A i, j \in 1..Len(cands) : i < j => ~ScoreBefore(out[j], out[i])}

\* std::vector<std::string> PlateValidator::extractBestPlateCandidates(raw_text)
\* (detector.cpp:330-380): the outcomes of a call, each the vector returned or
\* the exception that leaves the function.
extractBestPlateCandidates(text) ==
    IF text = <<>> THEN {[thrown |-> FALSE, candidates |-> <<>>]}
    ELSE LET clean == cleanText(text)
         IN  IF SubstrThrows(Len(clean))
             THEN {[thrown |-> TRUE, candidates |-> <<>>]}
             ELSE LET found == ValidSubstrings(clean, 1, <<>>)
                      std   == ScanMatches(clean, "STANDARD", found)
                      dip   == ScanMatches(clean, "DIPLOMATIC", std)
                  IN  {[thrown |-> FALSE, candidates |-> out] : out \in Sorted(dip)}

\* ------------------------------- SpecNormalize: the validator on its own
\* Characters of the enumerated texts: a letter, a lower-case letter, a
\* digit and a separator (C, d and 1 spell both grammars).
TextChars == {"C", "d", "1", "-"}

\* The texts of scenarios A, B and C, and a text whose diplomatic match
\* starts before its standard match.
ScenarioA == <<"A", " ", "B", " ", "C", " ", "-", " ", "1", " ", "2", " ", "3">>

ScenarioB == <<"X", "C", "D", "1", "2", "3", "4", "5", "Y">>

ScenarioC == <<"A", "B", "1", "2">>

DiplomaticBeforeStandard ==
    <<"C", "D", "1", "2", "3", "4", "A", "B", "C", "1", "2", "3">>

\* A text with two matches of the standard grammar.
TwoStandardMatches ==
    <<"A", "B", "C", "1", "2", "3", "X", "Y", "D", "4", "5", "1">>

RawTexts ==
    UNION {[1..n -> TextChars] : n \in 0..MaxTextLen}
        \cup {ScenarioA, ScenarioB, ScenarioC, DiplomaticBeforeStandard,
              TwoStandardMatches}

\* The members of LPRSystem and of the other components, untouched.
SystemIdle ==
    /\ Constructed(DefaultCooldown, 2)
    /\ cli = NoOptions
    /\ log_accesses = FALSE
    /\ cooldown_seconds_ = DefaultCooldown
    /\ detection_cooldown_ = [p \in Plates |-> NoEntry]
    /\ now = 0
    /\ last_check = NoCheck
    /\ prev_accept = [p \in Plates |-> NoEntry]
    /\ supp_since = [p \in Plates |-> FALSE]
    /\ SinkIdle

NormalizeInit ==
    /\ SystemIdle
    /\ cache_mutex_ = "free"
    /\ DetectorIdle
    /\ OcrConstructed
    /\ raw_text \in RawTexts
    /\ clean_text = <<>>
    /\ normalized = <<>>
    /\ renormalized = <<>>
    /\ val_pc = "input"
    /\ NoCandidates

\* normalized = PlateValidator::normalizeColombianPlate(raw_text)
Normalize ==
    /\ val_pc = "input"
    /\ clean_text' = cleanText(raw_text)
    /\ normalized' = normalizeColombianPlate(raw_text)
    /\ val_pc' = "normalized"
    /\ UNCHANGED <<sysVars, cache_mutex_, detVars, ocrVars, raw_text, renormalized,
                   candidates, cand_thrown, format_score>>

\* The returned plate is normalized again.
Renormalize ==
    /\ val_pc = "normalized"
    /\ renormalized' = normalizeColombianPlate(normalized)
    /\ val_pc' = "renormalized"
    /\ UNCHANGED <<sysVars, cache_mutex_, detVars, ocrVars, raw_text, clean_text, normalized,
                   candidates, cand_thrown, format_score>>

NormalizeNext == Normalize \/ Renormalize

SpecNormalize == NormalizeInit /\ [][NormalizeNext]_vars

\* ------------------- SpecCandidates: the candidates and the score of a text
\* A text whose standard plate comes before its diplomatic plate, and a text
\* that holds one plate twice.
StandardBeforeDiplomatic ==
    <<"A", "B", "C", "1", "2", "3", "C", "D", "1", "2", "3", "4">>

RepeatedPlate ==
    <<"A", "B", "C", "1", "2", "3", "-", "A", "B", "C", "1", "2", "3">>

CandidateTexts == RawTexts \cup {StandardBeforeDiplomatic, RepeatedPlate}

CandidatesInit ==
    /\ SystemIdle
    /\ cache_mutex_ = "free"
    /\ DetectorIdle
    /\ OcrConstructed
    /\ raw_text \in CandidateTexts
    /\ clean_text = <<>>
    /\ normalized = <<>>
    /\ renormalized = <<>>
    /\ val_pc = "input"
    /\ NoCandidates

\* candidates = PlateValidator::extractBestPlateCandidates(raw_text)
ExtractCandidates ==
    /\ val_pc = "input"
    /\ \E outcome \in extractBestPlateCandidates(raw_text) :
           /\ candidates' = outcome.candidates
           /\ cand_thrown' = outcome.thrown
    /\ clean_text' = cleanText(raw_text)
    /\ val_pc' = "extracted"
    /\ UNCHANGED <<sysVars, cache_mutex_, detVars, ocrVars, raw_text, normalized,
                   renormalized, format_score>>

\* format_score = PlateValidator::calculateFormatScore(raw_text)
ScoreText ==
    /\ val_pc = "input"
    /\ format_score' = calculateFormatScore(raw_text)
    /\ val_pc' = "scored"
    /\ UNCHANGED <<sysVars, cache_mutex_, detVars, ocrVars, raw_text, clean_text,
                   normalized, renormalized, candidates, cand_thrown>>

CandidatesNext == ExtractCandidates \/ ScoreText

SpecCandidates == CandidatesInit /\ [][CandidatesNext]_vars

\* -------------------------------------------------------- PlateDetector
\* A candidate is [bbox |-> [x, y, w, h], confidence |-> hundredths].
Max(a, b) == IF a >= b THEN a ELSE b

Min(a, b) == IF a <= b THEN a ELSE b

\* cv::Rect::area()
Area(r) == r.w * r.h

\* (a & b).area()
IntersectionArea(a, b) ==
    LET iw == Min(a.x + a.w, b.x + b.w) - Max(a.x, b.x)
        ih == Min(a.y + a.h, b.y + b.h) - Max(a.y, b.y)
    IN  IF iw > 0 /\ ih > 0 THEN iw * ih ELSE 0

UnionArea(a, b) == Area(a) + Area(b) - IntersectionArea(a, b)

\* Intersection-over-Union of two boxes of positive area against a threshold
\* in hundredths: IoU <= thr, and IoU < thr.
IoUAtMost(a, b, thr) == IntersectionArea(a, b) * 100 <= thr * UnionArea(a, b)

IoUBelow(a, b, thr) == IntersectionArea(a, b) * 100 < thr * UnionArea(a, b)

\* The confidence filter of postprocess (detector.cpp:182-193):
\* if (max_confidence >= confidence_threshold_) detections.emplace_back(...)
RECURSIVE postprocess(_)
postprocess(boxes) ==
    IF boxes = <<>> THEN <<>>
    ELSE (IF Head(boxes).confidence >= ConfidenceThreshold THEN <<Head(boxes)>> ELSE <<>>)
         \o postprocess(Tail(boxes))

\* cv::dnn::NMSBoxes, first step: the indices whose score is greater than
\* score_threshold, ordered by score descending with a stable sort.
RECURSIVE InsertByScore(_, _, _)
InsertByScore(order, i, cands) ==
    IF order = <<>> THEN <<i>>
    ELSE IF cands[Head(order)].confidence >= cands[i].confidence
         THEN <<Head(order)>> \o InsertByScore(Tail(order), i, cands)
         ELSE <<i>> \o order

\* A score filter that admits a score equal to the threshold.
ScoreAdmitted_Inclusive(score, score_threshold) == score >= score_threshold

\* cv::dnn::NMSBoxes: scores[i] > score_threshold
ScoreAdmitted(score, score_threshold) == score > score_threshold

RECURSIVE GetMaxScoreIndex(_, _, _)
GetMaxScoreIndex(cands, n, score_threshold) ==
    IF n = 0 THEN <<>>
    ELSE LET before == GetMaxScoreIndex(cands, n - 1, score_threshold)
         IN  IF ScoreAdmitted(cands[n].confidence, score_threshold)
             THEN InsertByScore(before, n, cands)
             ELSE before

\* A keep test that looks at the latest kept box only.
Keeps_LastOnly(cands, i, kept, thr) ==
    kept = <<>> \/ IoUAtMost(cands[i].bbox, cands[kept[Len(kept)]].bbox, thr)

\* cv::dnn::NMSBoxes, second step: keep = overlap <= nms_threshold against
\* every index kept so far
Keeps(cands, i, kept, thr) ==
    \A k \in 1..Len(kept) : IoUAtMost(cands[i].bbox, cands[kept[k]].bbox, thr)

RECURSIVE GreedyKeep(_, _, _, _)
GreedyKeep(cands, order, kept, thr) ==
    IF order = <<>> THEN kept
    ELSE GreedyKeep(cands, Tail(order),
                    IF Keeps(cands, Head(order), kept, thr)
                    THEN Append(kept, Head(order)) ELSE kept,
                    thr)

\* cv::dnn::NMSBoxes(bboxes, confidences, score_threshold, nms_threshold, indices)
\* as called at detector.cpp:218-224
NMSBoxes(cands, score_threshold, nms_threshold) ==
    GreedyKeep(cands, GetMaxScoreIndex(cands, Len(cands), score_threshold), <<>>,
               nms_threshold)

\* The indices applyNMS gets from NMSBoxes with confidence_threshold_ as the
\* score threshold (detector.cpp:204-224)
applyNMSIndices(cands, nms_threshold) ==
    IF cands = <<>> THEN <<>> ELSE NMSBoxes(cands, ConfidenceThreshold, nms_threshold)

\* std::vector<PlateDetection> PlateDetector::applyNMS(detections, nms_threshold)
applyNMS(cands, nms_threshold) ==
    LET idx == applyNMSIndices(cands, nms_threshold)
    IN  [k \in 1..Len(idx) |-> cands[idx[k]]]

\* -------------------------------------- SpecNMS: the detector's filtering
Boxes == {[x |-> x, y |-> 0, w |-> w, h |-> 1] : x \in 0..1, w \in 1..MaxBoxWidth}

\* Confidences in hundredths: below, at and above the confidence threshold.
Confidences == {20, 30, 80}

Candidates == [bbox : Boxes, confidence : Confidences]

\* Scenario D: two boxes with IoU 0.7 and confidences 0.8 and 0.6.
ScenarioD ==
    <<[bbox |-> [x |-> 0, y |-> 0, w |-> 7, h |-> 1], confidence |-> 60],
      [bbox |-> [x |-> 0, y |-> 0, w |-> 10, h |-> 1], confidence |-> 80]>>

DecodedLists ==
    UNION {[1..n -> Candidates] : n \in 0..MaxCands} \cup {ScenarioD}

NMSInit ==
    /\ SystemIdle
    /\ cache_mutex_ = "free"
    /\ ValidatorIdle
    /\ OcrConstructed
    /\ decoded \in DecodedLists
    /\ detections = <<>>
    /\ indices = <<>>
    /\ filtered_detections = <<>>
    /\ det_pc = "decoded"
    /\ DetectCallerIdle

\* detections = postprocess(outputs, frame.size())   (detector.cpp:97)
Postprocess ==
    /\ det_pc = "decoded"
    /\ detections' = postprocess(decoded)
    /\ det_pc' = "postprocessed"
    /\ UNCHANGED <<sysVars, cache_mutex_, valVars, ocrVars, decoded, indices,
                   filtered_detections, det_call, det_thrown, rois>>

\* filtered_detections = applyNMS(detections)   (detector.cpp:100)
ApplyNMS ==
    /\ det_pc = "postprocessed"
    /\ indices' = applyNMSIndices(detections, NmsThreshold)
    /\ filtered_detections' = applyNMS(detections, NmsThreshold)
    /\ det_pc' = "filtered"
    /\ UNCHANGED <<sysVars, cache_mutex_, valVars, ocrVars, decoded, detections, det_call,
                   det_thrown, rois>>

NMSNext == Postprocess \/ ApplyNMS

SpecNMS == NMSInit /\ [][NMSNext]_vars

\* ------------------------------------ SpecDetect: detect() and its caller
\* Frames passed to detect(): empty, and 4x2 pixels.
DetectFrames == {EmptyFrame, [cols |-> 4, rows |-> 2]}

\* A detect() call: whether initialize() succeeded, the frame, whether
\* net_.forward (or blobFromImage) throws cv::Exception, and the number of
\* features per box in the network output.
DetectCalls ==
    [initialized : BOOLEAN, frame : DetectFrames, forward : {"ok", "cv_exception"},
     num_features : 3..5]

\* The decoding loop of postprocess (detector.cpp:134-180): an output with
\* fewer than 4 features is skipped, one with exactly 4 gives every box the
\* confidence 0.5, otherwise the box has its best class score.
DecodeOutput(num_features, boxes) ==
    IF num_features < 4 THEN <<>>
    ELSE IF num_features = 4
         THEN [i \in 1..Len(boxes) |-> [boxes[i] EXCEPT !.confidence = 50]]
         ELSE boxes

\* A detect() without the catch clause.
CaughtCvException_Rethrown == [thrown |-> TRUE, detections |-> <<>>]

\* catch (const cv::Exception& e) { ...; return {}; }   (detector.cpp:104-107)
CaughtCvException == [thrown |-> FALSE, detections |-> <<>>]

\* std::vector<PlateDetection> PlateDetector::detect(frame)  (detector.cpp:80-108)
detect(call, boxes) ==
    IF ~call.initialized \/ call.frame = EmptyFrame
    THEN [thrown |-> FALSE, detections |-> <<>>]
    ELSE IF call.forward = "cv_exception"
    THEN CaughtCvException
    ELSE [thrown |-> FALSE,
          detections |-> applyNMS(postprocess(DecodeOutput(call.num_features, boxes)),
                                  NmsThreshold)]

\* A clamp that leaves the origin where the detector put it.
ClampRoi_NoOrigin(bbox, frame) ==
    [x |-> bbox.x, y |-> bbox.y,
     w |-> Min(bbox.w, frame.cols - bbox.x), h |-> Min(bbox.h, frame.rows - bbox.y)]

\* "Asegurar que el ROI esta dentro de los limites del frame"
\* (lpr_system.cpp:303-307)
ClampRoi(bbox, frame) ==
    LET x == Max(0, bbox.x)
        y == Max(0, bbox.y)
    IN  [x |-> x, y |-> y,
         w |-> Min(bbox.w, frame.cols - x), h |-> Min(bbox.h, frame.rows - y)]

\* if (roi.width <= 0 || roi.height <= 0) continue;   (lpr_system.cpp:309-311)
RoiSkipped(roi) == roi.w <= 0 \/ roi.h <= 0

\* The head of the loop over the detections in processFrame: each candidate's
\* roi is clamped, then skipped or cropped (plate_roi = frame(roi)).
CropAll(cands, frame) ==
    [i \in 1..Len(cands) |->
        LET roi == ClampRoi(cands[i].bbox, frame)
        IN  [bbox |-> cands[i].bbox, roi |-> roi, cropped |-> ~RoiSkipped(roi)]]

\* Network outputs decoded in SpecDetect: up to two boxes.
DetectDecoded == UNION {[1..n -> Candidates] : n \in 0..2}

DetectInit ==
    /\ SystemIdle
    /\ cache_mutex_ = "free"
    /\ ValidatorIdle
    /\ OcrConstructed
    /\ decoded \in DetectDecoded
    /\ detections = <<>>
    /\ indices = <<>>
    /\ filtered_detections = <<>>
    /\ det_pc = "called"
    /\ det_call \in DetectCalls
    /\ det_thrown = FALSE
    /\ rois = <<>>

\* std::vector<PlateDetection> detections = detector_->detect(frame);
\* (lpr_system.cpp:292)
Detect ==
    /\ det_pc = "called"
    /\ LET r == detect(det_call, decoded)
       IN  /\ filtered_detections' = r.detections
           /\ det_thrown' = r.thrown
    /\ det_pc' = "returned"
    /\ UNCHANGED <<sysVars, cache_mutex_, valVars, ocrVars, decoded, detections, indices,
                   det_call, rois>>

\* for (const auto& detection : detections) { roi ...; crop }: reached when
\* detect() returned, not when an exception unwinds processFrame
CropCandidates ==
    /\ det_pc = "returned"
    /\ ~det_thrown
    /\ rois' = CropAll(filtered_detections, det_call.frame)
    /\ det_pc' = "cropped"
    /\ UNCHANGED <<sysVars, cache_mutex_, valVars, ocrVars, decoded, detections, indices,
                   filtered_detections, det_call, det_thrown>>

DetectNext == Detect \/ CropCandidates

SpecDetect == DetectInit /\ [][DetectNext]_vars

\* --------------------------- SpecCrop: processFrame's clamp on any candidate
\* Candidate boxes of any position and extent, negative ones included.
AnyBoxes ==
    [x : -2..MaxCoord, y : -2..MaxCoord, w : -1..MaxCoord, h : -1..MaxCoord]

\* Frames passed to processFrame.
CropFrames == {[cols |-> 1, rows |-> 1], [cols |-> 4, rows |-> 2], [cols |-> 3, rows |-> 3]}

\* detect() has returned one candidate with such a box.
CropInit ==
    /\ SystemIdle
    /\ cache_mutex_ = "free"
    /\ ValidatorIdle
    /\ OcrConstructed
    /\ decoded = <<>>
    /\ detections = <<>>
    /\ indices = <<>>
    /\ \E b \in AnyBoxes : filtered_detections = <<[bbox |-> b, confidence |-> 80]>>
    /\ det_pc = "returned"
    /\ \E f \in CropFrames :
          det_call = [initialized |-> TRUE, frame |-> f, forward |-> "ok", num_features |-> 5]
    /\ det_thrown = FALSE
    /\ rois = <<>>

CropNext == CropCandidates

SpecCrop == CropInit /\ [][CropNext]_vars

\* --------------------------------------------------------- OCRProcessor
\* Fingerprints that have an entry in the cache.
CachedKeys(cache) == DOMAIN cache

\* A store that leaves the cache as it was.
CacheInsert_Skip(cache, hash, result) == cache

\* ocr_cache_[image_hash] = result;   (ocr_processor.cpp:107)
CacheInsert(cache, hash, result) ==
    [f \in CachedKeys(cache) \cup {hash} |-> IF f = hash THEN result ELSE cache[f]]

\* ocr_cache_.erase(it) for the entries in victims
CacheEvict(cache, victims) ==
    [f \in CachedKeys(cache) \ victims |-> cache[f]]

RECURSIVE Reverse(_)
Reverse(seq) == IF seq = <<>> THEN <<>> ELSE Append(Reverse(Tail(seq)), Head(seq))

Range(seq) == {seq[i] : i \in 1..Len(seq)}

\* The first n elements of a sequence (all of them when it is shorter).
FirstKeys(seq, n) == {seq[i] : i \in 1..Min(n, Len(seq))}

\* An eviction that erases nothing.
EvictionChoices_None(cache, order) == {{}}

\* The orders in which std::unordered_map may iterate its entries from
\* begin(): the standard leaves the order to the hash table. The two extremes
\* are taken: oldest insertion first, and newest insertion first (a node list
\* that links each new entry at its head).
IterationOrders(order) == {order, Reverse(order)}

\* "Limpiar cache si esta muy lleno": when size() >= max_cache_size_, erase
\* max_cache_size_ / 5 entries starting at begin()   (ocr_processor.cpp:98-105)
EvictionChoices(cache, order) ==
    IF Cardinality(CachedKeys(cache)) >= MaxCacheSize
    THEN {FirstKeys(o, MaxCacheSize \div 5) : o \in IterationOrders(order)}
    ELSE {{}}

\* The insertion order after the store scope erased victims and assigned hash.
RECURSIVE Without(_, _)
Without(seq, gone) ==
    IF seq = <<>> THEN <<>>
    ELSE (IF Head(seq) \in gone THEN <<>> ELSE <<Head(seq)>>) \o Without(Tail(seq), gone)

OrderAfterStore(order, victims, hash) ==
    LET left == Without(order, victims)
    IN  IF hash \in Range(left) THEN left ELSE Append(left, hash)

\* A recognize() call that returned.
Returned(image, cached, result, hit, engine) ==
    ocr_log' = IF Len(ocr_log) < MaxOcrCalls
               THEN Append(ocr_log, [image |-> image, use_cache |-> cached,
                                     result |-> result, hit |-> hit, engine |-> engine])
               ELSE ocr_log

\* bool OCRProcessor::initialize()
OcrInitialize(ok) ==
    /\ ocr_pc = "idle"
    /\ ~ocr_initialized_
    /\ ocr_initialized_' = ok
    /\ UNCHANGED <<sysVars, attemptVars, cache_mutex_, valVars, detVars, ocr_cache_, insert_order,
                   ocr_pc, plate_image, use_cache, ocr_result, engine_calls, ocr_log>>

\* recognize(image, cached) is entered: the early return, or the lock of the
\* lookup scope, or straight to the engine   (ocr_processor.cpp:69-78)
RecognizeCall(image, cached) ==
    /\ ocr_pc = "idle"
    /\ plate_image' = image
    /\ use_cache' = cached
    /\ ocr_result' = DefaultResult
    /\ IF ~ocr_initialized_ \/ image = EmptyImage
       THEN /\ Returned(image, cached, DefaultResult, FALSE, FALSE)
            /\ UNCHANGED <<ocr_pc, cache_mutex_>>
       ELSE IF cached
       THEN /\ cache_mutex_ = "free"
            /\ cache_mutex_' = "caller"
            /\ ocr_pc' = "lookup"
            /\ UNCHANGED ocr_log
       ELSE /\ ocr_pc' = "engine"
            /\ UNCHANGED <<ocr_log, cache_mutex_>>
    /\ UNCHANGED <<sysVars, attemptVars, valVars, detVars, ocr_initialized_, ocr_cache_, insert_order,
                   engine_calls>>

\* auto it = ocr_cache_.find(image_hash); a hit returns it->second; the
\* scope ends   (ocr_processor.cpp:79-83)
RecognizeLookup ==
    /\ ocr_pc = "lookup"
    /\ cache_mutex_' = "free"
    /\ LET hash == calculateImageHash(plate_image)
       IN  IF hash \in CachedKeys(ocr_cache_)
           THEN /\ Returned(plate_image, use_cache, ocr_cache_[hash], TRUE, FALSE)
                /\ ocr_pc' = "idle"
           ELSE /\ ocr_pc' = "engine"
                /\ UNCHANGED ocr_log
    /\ UNCHANGED <<sysVars, attemptVars, valVars, detVars, ocr_initialized_, ocr_cache_, insert_order,
                   plate_image, use_cache, ocr_result, engine_calls>>

\* result = recognizeInternal(preprocessPlateImage(image)); then the lock of
\* the store scope when the result has text   (ocr_processor.cpp:86-95)
RecognizeEngine(result) ==
    /\ ocr_pc = "engine"
    /\ engine_calls' = engine_calls + 1
    /\ ocr_result' = result
    /\ IF use_cache /\ result.text # ""
       THEN /\ cache_mutex_ = "free"
            /\ cache_mutex_' = "caller"
            /\ ocr_pc' = "store"
            /\ UNCHANGED ocr_log
       ELSE /\ Returned(plate_image, use_cache, result, FALSE, TRUE)
            /\ ocr_pc' = "idle"
            /\ UNCHANGED cache_mutex_
    /\ UNCHANGED <<sysVars, attemptVars, valVars, detVars, ocr_initialized_, ocr_cache_, insert_order,
                   plate_image, use_cache>>

\* eviction when full, ocr_cache_[image_hash] = result, the scope ends and
\* recognize returns   (ocr_processor.cpp:97-110)
RecognizeStore(victims) ==
    /\ ocr_pc = "store"
    /\ victims \in EvictionChoices(ocr_cache_, insert_order)
    /\ ocr_cache_' = CacheInsert(CacheEvict(ocr_cache_, victims),
                                 calculateImageHash(plate_image), ocr_result)
    /\ insert_order' = OrderAfterStore(insert_order, victims,
                                       calculateImageHash(plate_image))
    /\ cache_mutex_' = "free"
    /\ Returned(plate_image, use_cache, ocr_result, FALSE, TRUE)
    /\ ocr_pc' = "idle"
    /\ UNCHANGED <<sysVars, attemptVars, valVars, detVars, ocr_initialized_, plate_image, use_cache,
                   ocr_result, engine_calls>>

OcrNext ==
    \/ \E ok \in BOOLEAN : OcrInitialize(ok)
    \/ /\ Len(ocr_log) < MaxOcrCalls
       /\ \E image \in Images, cached \in BOOLEAN : RecognizeCall(image, cached)
    \/ RecognizeLookup
    \/ \E result \in EngineResults : RecognizeEngine(result)
    \/ \E victims \in EvictionChoices(ocr_cache_, insert_order) : RecognizeStore(victims)

OcrInit ==
    /\ SystemIdle
    /\ cache_mutex_ = "free"
    /\ ValidatorIdle
    /\ DetectorIdle
    /\ OcrConstructed

SpecOCR == OcrInit /\ [][OcrNext]_vars

\* ------------------------------------ SpecCache: the cache filled to capacity
\* A 10x10 image whose sampled pixel has value k.
CacheImage(k) == [rows |-> 10, cols |-> 10, sample |-> k, other |-> 0]

\* The image a cached fingerprint was computed from.
ImageOf(hash) == CacheImage(hash[3])

\* The first image, in the order of the sampled pixel, that has no entry.
FreshSample(cache) ==
    CHOOSE k \in 1..MaxEngineCalls + 1 :
        /\ calculateImageHash(CacheImage(k)) \notin CachedKeys(cache)
        /\ \A j \in 1..k - 1 : calculateImageHash(CacheImage(j)) \in CachedKeys(cache)

\* Images given to recognize() while the cache fills: one without an entry,
\* and the one whose entry is the oldest.
CacheCallImages ==
    {CacheImage(FreshSample(ocr_cache_))}
        \cup (IF insert_order = <<>> THEN {} ELSE {ImageOf(Head(insert_order))})

\* What recognizeInternal returns while the cache fills: a text, so that every
\* miss stores an entry (SpecOCR covers the result without text).
CacheEngineResults == {[text |-> "ABC123", confidence |-> 90]}

\* clearCache() is called once the cache has nearly filled.
ClearFrom == MaxCacheSize - 1

\* void OCRProcessor::clearCache(): lock_guard, ocr_cache_.clear()
\* (ocr_processor.cpp:200-203), called from another thread
ClearCache ==
    /\ cache_mutex_ = "free"
    /\ ocr_cache_' = <<>>
    /\ insert_order' = <<>>
    /\ UNCHANGED <<sysVars, attemptVars, cache_mutex_, valVars, detVars, ocr_initialized_, ocr_pc,
                   plate_image, use_cache, ocr_result, engine_calls, ocr_log>>

CacheNext ==
    \/ \E ok \in BOOLEAN : OcrInitialize(ok)
    \/ /\ engine_calls < MaxEngineCalls
       /\ \E image \in CacheCallImages : RecognizeCall(image, TRUE)
    \/ RecognizeLookup
    \/ \E result \in CacheEngineResults : RecognizeEngine(result)
    \/ \E victims \in EvictionChoices(ocr_cache_, insert_order) : RecognizeStore(victims)
    \/ /\ engine_calls >= ClearFrom
       /\ ClearCache

SpecCache == OcrInit /\ [][CacheNext]_vars

\* ------------------------- SpecAttempts: recognizeMultipleAttempts on its own
\* std::vector<cv::Mat> OCRProcessor::applyMultipleThresholds(gray): the
\* binarized variants in the order they are pushed  (ocr_processor.cpp:281-321)
applyMultipleThresholds ==
    <<"otsu", "otsu_inv", "adaptive_mean", "adaptive_gauss",
      "manual_80", "manual_inv_80", "manual_100", "manual_inv_100",
      "manual_120", "manual_inv_120", "manual_140", "manual_inv_140">>

\* The image of the fallback: preprocessPlateImage(plate_image)
Preprocessed == "preprocessed"

\* What Tesseract reads from one image: the text and the average of the word
\* confidences, in hundredths: below and at the minimum, at 0.5, at and
\* above 0.9.
Readings == [text : {"ABC123"}, avg_confidence : {10, 25, 50, 90, 95}]

\* OCRResult OCRProcessor::recognizeInternal(processed_image): a reading
\* below confidence_threshold_ is rejected  (ocr_processor.cpp:260-273)
recognizeInternal(reading) ==
    IF reading.avg_confidence < PlateConfidenceMin THEN DefaultResult
    ELSE [text |-> reading.text, confidence |-> reading.avg_confidence]

\* A comparison that takes every later result.
Better_Always(confidence, best) == TRUE

\* if (result.confidence > best_confidence)   (ocr_processor.cpp:136, 152)
Better(confidence, best) == confidence > best

\* A test that never ends the loop early.
HighConfidence_Never(best) == FALSE

\* if (best_confidence > 0.9f) break;   (ocr_processor.cpp:142-144)
HighConfidence(best) == best > 90

\* if (best_confidence < 0.5f)   (ocr_processor.cpp:148)
NeedsFallback(best) == best < 50

\* A recognizeMultipleAttempts that stores what it returns.
CacheAfterAttempts_Store(cache, hash, result) == CacheInsert(cache, hash, result)

\* The cache after recognizeMultipleAttempts: no statement of the function
\* names ocr_cache_ or cache_mutex_  (ocr_processor.cpp:113-158)
CacheAfterAttempts(cache, hash, result) == cache

\* The images given to recognizeMultipleAttempts: an empty one and a plate.
AttemptImages == {EmptyImage, [rows |-> 10, cols |-> 10, sample |-> 1, other |-> 0]}

\* recognizeMultipleAttempts(image) is entered: the early return, or the
\* locals and the list of variants  (ocr_processor.cpp:113-130)
MultipleAttemptsCall(image) ==
    /\ ocr_pc = "idle"
    /\ attempt_hist.calls < MaxAttemptCalls
    /\ plate_image' = image
    /\ best_result' = DefaultResult
    /\ best_confidence' = 0
    /\ binary_index' = 0
    /\ LET entered == [NoAttempts EXCEPT
                           !.calls = attempt_hist.calls + 1,
                           !.cached = calculateImageHash(image) \in CachedKeys(ocr_cache_)]
       IN  IF ~ocr_initialized_ \/ image = EmptyImage
           THEN /\ attempt_hist' = [entered EXCEPT !.returned = DefaultResult]
                /\ ocr_pc' = "idle"
           ELSE /\ attempt_hist' = entered
                /\ ocr_pc' = "variants"
    /\ UNCHANGED <<sysVars, cache_mutex_, valVars, detVars, ocr_initialized_, ocr_cache_,
                   insert_order, use_cache, ocr_result, engine_calls, ocr_log>>

\* One turn of the loop over binary_images: recognizeInternal, the best so
\* far, and the break  (ocr_processor.cpp:133-145)
TryVariant(reading) ==
    /\ ocr_pc = "variants"
    /\ binary_index < Len(applyMultipleThresholds)
    /\ LET result == recognizeInternal(reading)
           better == Better(result.confidence, best_confidence)
           best   == IF better THEN result.confidence ELSE best_confidence
           done   == HighConfidence(best) \/ binary_index + 1 = Len(applyMultipleThresholds)
       IN  /\ best_confidence' = best
           /\ best_result' = IF better THEN result ELSE best_result
           /\ binary_index' = binary_index + 1
           /\ ocr_pc' = IF done THEN "fallback" ELSE "variants"
           /\ attempt_hist' =
                  [attempt_hist EXCEPT
                      !.tried = Append(@, applyMultipleThresholds[binary_index + 1]),
                      !.seen = @ \cup {result},
                      !.after_high = @ \/ best_confidence > 90,
                      !.early = HighConfidence(best),
                      !.after_variants = IF done THEN best ELSE @]
    /\ engine_calls' = engine_calls + 1
    /\ UNCHANGED <<sysVars, cache_mutex_, valVars, detVars, ocr_initialized_, ocr_cache_,
                   insert_order, plate_image, use_cache, ocr_result, ocr_log>>

\* The fallback on preprocessPlateImage(plate_image), and the return
\* (ocr_processor.cpp:148-157)
AttemptFallback(reading) ==
    /\ ocr_pc = "fallback"
    /\ NeedsFallback(best_confidence)
    /\ LET result == recognizeInternal(reading)
           best   == IF Better(result.confidence, best_confidence)
                     THEN result ELSE best_result
       IN  /\ best_result' = best
           /\ attempt_hist' = [attempt_hist EXCEPT !.tried = Append(@, Preprocessed),
                                                   !.seen = @ \cup {result},
                                                   !.returned = best]
           /\ ocr_cache_' = CacheAfterAttempts(ocr_cache_, calculateImageHash(plate_image),
                                               best)
    /\ engine_calls' = engine_calls + 1
    /\ ocr_pc' = "idle"
    /\ UNCHANGED <<sysVars, cache_mutex_, valVars, detVars, ocr_initialized_, insert_order,
                   plate_image, use_cache, ocr_result, ocr_log, binary_index,
                   best_confidence>>

\* The return without the fallback  (ocr_processor.cpp:148, 157)
ReturnBest ==
    /\ ocr_pc = "fallback"
    /\ ~NeedsFallback(best_confidence)
    /\ attempt_hist' = [attempt_hist EXCEPT !.returned = best_result]
    /\ ocr_cache_' = CacheAfterAttempts(ocr_cache_, calculateImageHash(plate_image),
                                        best_result)
    /\ ocr_pc' = "idle"
    /\ UNCHANGED <<sysVars, cache_mutex_, valVars, detVars, ocr_initialized_, insert_order,
                   plate_image, use_cache, ocr_result, engine_calls, ocr_log, binary_index,
                   best_result, best_confidence>>

\* recognize(image, true) is called while the cache is empty, so that the
\* cache holds an entry when recognizeMultipleAttempts runs.
AttemptsNext ==
    \/ \E ok \in BOOLEAN : OcrInitialize(ok)
    \/ /\ CachedKeys(ocr_cache_) = {}
       /\ attempt_hist.calls = 0
       /\ \E image \in AttemptImages \ {EmptyImage} : RecognizeCall(image, TRUE)
    \/ RecognizeLookup
    \/ \E result \in CacheEngineResults : RecognizeEngine(result)
    \/ \E victims \in EvictionChoices(ocr_cache_, insert_order) : RecognizeStore(victims)
    \/ \E image \in AttemptImages : MultipleAttemptsCall(image)
    \/ \E reading \in Readings : TryVariant(reading)
    \/ \E reading \in Readings : AttemptFallback(reading)
    \/ ReturnBest

SpecAttempts == OcrInit /\ [][AttemptsNext]_vars

\* ------------------------------------------------- claims on checkCooldown
\* Age of plate q's entry at the latest clock reading.
Age(q) == now - detection_cooldown_[q]

\* C1 (as stated): of two successive checkCooldown calls on the same plate, at
\* times t1 < t2, the later one is suppressed when t2 - t1 < cooldown and
\* accepted when t2 - t1 >= cooldown, whatever the earlier call returned.
C1_AnyTwoCalls ==
    [][ (last_check.plate # "" /\ last_check'.plate = last_check.plate /\ now' > now)
        => (last_check'.ok <=> (now' - now >= cooldown_seconds_)) ]_vars

\* C1 (amended): when the call at t1 is the latest accepted call on the plate
\* before the call at t2 > t1, the call at t2 is suppressed when
\* t2 - t1 < cooldown and accepted when t2 - t1 >= cooldown.
C1_SinceLastAccepted ==
    [][ LET p == last_check'.plate
        IN  (prev_accept[p] # NoEntry /\ now' > prev_accept[p])
            => (last_check'.ok <=> (now' - prev_accept[p] >= cooldown_seconds_)) ]_vars

\* C1 witness: a check suppressed inside the window of an accepted one.
C1_Witness ==
    /\ last_check.plate # "" /\ ~last_check.ok
    /\ last_check.gap > 0 /\ last_check.gap < cooldown_seconds_

\* C2 (as stated): a call is accepted exactly when the plate has no entry or
\* now minus its entry is strictly greater than the cooldown; on accept the
\* entry becomes now.
C2_AcceptIffExceeds ==
    [][ LET p == last_check'.plate
        IN  /\ last_check'.ok <=> (detection_cooldown_[p] = NoEntry
                                   \/ now' - detection_cooldown_[p] > cooldown_seconds_)
            /\ last_check'.ok => detection_cooldown_'[p] = now' ]_vars

\* C2 (amended): a call is accepted exactly when the plate has no entry or
\* now minus its entry is at least the cooldown; on accept the entry becomes
\* now; in every other case the call is suppressed.
C2_AcceptIffAtLeast ==
    [][ LET p == last_check'.plate
        IN  /\ last_check'.ok <=> (detection_cooldown_[p] = NoEntry
                                   \/ now' - detection_cooldown_[p] >= cooldown_seconds_)
            /\ last_check'.ok => detection_cooldown_'[p] = now' ]_vars

\* C2 witness: a check accepted exactly one cooldown after the previous accept.
C2_Witness ==
    /\ last_check.ok /\ cooldown_seconds_ > 0
    /\ last_check.gap = cooldown_seconds_
    /\ detection_cooldown_[last_check.plate] = now

\* C3: measured from the latest accepted check of the plate at t0, a check is
\* suppressed when it comes before t0 + cooldown and accepted when it comes at
\* or after t0 + cooldown, however many suppressed checks lie between.
C3_WindowNotExtended ==
    last_check.gap # NoEntry
        => (last_check.ok <=> last_check.gap >= cooldown_seconds_)

\* C3 witness (scenario E): accept, suppress inside the window, then accept
\* exactly one cooldown after the first accept.
C3_Witness ==
    /\ last_check.ok /\ last_check.after_supp
    /\ last_check.gap = cooldown_seconds_

\* C4: a checkCooldown call that returns suppress leaves the map unchanged.
C4_SuppressKeepsMap ==
    [][ ~last_check'.ok => detection_cooldown_' = detection_cooldown_ ]_vars

\* C4 witness: a suppressed check made while another plate's entry is older
\* than 10x the cooldown.
C4_Witness ==
    /\ last_check.plate # "" /\ ~last_check.ok
    /\ \E q \in Plates : detection_cooldown_[q] # NoEntry
                         /\ Age(q) > cooldown_seconds_ * PruneFactor

LastK(q, k) == SubSeq(q, Len(q) - k + 1, Len(q))

\* a is b with some elements left out.
RECURSIVE IsSubsequence(_, _)
IsSubsequence(a, b) ==
    IF a = <<>> THEN TRUE
    ELSE IF b = <<>> THEN FALSE
    ELSE IF Head(a) = Head(b) THEN IsSubsequence(Tail(a), Tail(b))
    ELSE IsSubsequence(a, Tail(b))

\* C6: in every reachable state the frame queue holds at most max_queue_size_
\* frames; after max_queue_size_ + 1 consecutive inserts with no dequeue it
\* holds exactly the max_queue_size_ most recently captured frames, in
\* capture order.
C6_QueueBounded ==
    /\ Len(frame_queue_) <= MaxQueueSize
    /\ pushes_since_pop >= MaxQueueSize + 1
         => /\ frame_queue_ = LastK(enqueued, MaxQueueSize)
            /\ cap_pc \in {"loop", "get", "done"}
                 => frame_queue_[MaxQueueSize] = frame_counter_

\* C6 witness: a full queue after max_queue_size_ + 1 inserts in a row.
C6_Witness ==
    /\ pushes_since_pop >= MaxQueueSize + 1
    /\ Len(frame_queue_) = MaxQueueSize
    /\ Head(frame_queue_) > 1

\* C7: the frames passed to processFrame are, in order, a subsequence of the
\* frames the capture loop enqueued: none twice, none after a later one.
C7_ProcessedInOrder ==
    /\ IsSubsequence(processed, enqueued)
    /\ \A i, j \in 1..Len(processed) : i < j => processed[i] < processed[j]

\* C7 witness: two frames processed with a frame between them left out.
C7_Witness ==
    /\ Len(processed) >= 2
    /\ processed[2] > processed[1] + 1

\* The frame counter values a cadence divisor n selects among d dequeues.
SelectedKs(d, n) == [i \in 1..(d \div n) |-> i * n]

\* C8: with cadence divisor N >= 1 the k-th dequeued frame is processed
\* exactly when k is a multiple of N, so after d dequeues floor(d/N) frames
\* were processed; a frame that is not selected is discarded without
\* detection, OCR or cooldown-map update.
C8_Cadence ==
    /\ [](proc_pc \in {"loop", "lock", "locked", "sleep_locked", "done"}
            => /\ ai_every >= 1
               /\ run_ks = SelectedKs(frame_skip_counter, ai_every)
               /\ Len(run_ks) = frame_skip_counter \div ai_every)
    /\ [][(proc_pc = "select" /\ proc_pc' = "loop")
            => /\ ~Selected(frame_skip_counter', ai_every)
               /\ UNCHANGED <<detection_cooldown_, ai_frame_counter_,
                              detection_counter_, db_inserted, processed, run_ks>>]_vars

\* C8 witness: divisor 2, three frames dequeued, one of them processed.
C8_Witness ==
    /\ proc_pc = "loop"
    /\ ai_every = 2
    /\ frame_skip_counter = 3
    /\ run_ks = <<2>>

\* C9: while stop() stops the frame source and disconnects the database,
\* both threads have terminated, so neither is at a call into the frame
\* source, the detector, the OCR engine or the database.
C9_ReleaseAfterJoin ==
    ctl_pc \in {"stop_video", "disconnect"}
        => /\ cap_pc = "done"
           /\ proc_pc = "done"
           /\ frame_queue_mutex_ = "free"

\* C9 witness: stop() has stopped the frame source of a pipeline that ran.
C9_Witness ==
    /\ ctl_pc = "disconnect"
    /\ ~video_started
    /\ db_connected
    /\ Len(processed) >= 1

\* C10: once stop() has cleared running_, neither loop begins another
\* iteration (each finishes at most the one it is in), and stop() returns.
C10_StopReturns ==
    /\ [][/\ (~running_ /\ cap_pc = "loop") => cap_pc' \in {"loop", "done"}
          /\ (~running_ /\ proc_pc = "loop") => proc_pc' \in {"loop", "done"}]_vars
    /\ (ctl_pc = "join_capture")
          ~> (ctl_pc = "idle" /\ ~running_ /\ cap_pc = "done" /\ proc_pc = "done")

\* C10 witness: stop() waits while the capture thread waits for the queue
\* lock that the processing thread holds during its empty-queue sleep.
C10_Witness ==
    /\ ctl_pc = "join_capture"
    /\ cap_pc = "lock"
    /\ proc_pc = "sleep_locked"

\* ------------------------------------------------------ claims on the locks
Threads == {"control", "capture", "processing"}

\* The thread has started and has not returned (the control thread: it is
\* inside stop()).
Active(th) ==
    CASE th = "capture"    -> cap_pc \notin {"none", "done"}
      [] th = "processing" -> proc_pc \notin {"none", "done"}
      [] OTHER             -> ctl_pc # "idle"

\* The thread can take its next step now.
CanRun(th) ==
    CASE th = "capture"    -> ENABLED CaptureStep
      [] th = "processing" -> ENABLED ProcessingStep
      [] OTHER             -> ENABLED StopStep

\* Thread th is blocked on a lock that thread o holds, or in a join of o.
WaitsFor(th, o) ==
    CASE th = "capture"    -> cap_pc = "lock" /\ frame_queue_mutex_ = o
      [] th = "processing" -> \/ proc_pc = "lock" /\ frame_queue_mutex_ = o
                              \/ proc_pc = "process" /\ cooldown_mutex_ = o
      [] OTHER             -> \/ ctl_pc = "join_capture" /\ o = "capture"
                              \/ ctl_pc = "join_processing" /\ o = "processing"

\* C11: no thread holds more than one of the frame-queue lock, the OCR-cache
\* lock and the cooldown-map lock at a time, and no state is a deadlock:
\* every thread that has not finished can run, or waits for a thread that can
\* run, or waits for one that waits for one that can run.
C11_OneLockNoDeadlock ==
    /\ \A th \in Threads : Cardinality(HeldBy(th)) <= 1
    /\ \A th \in Threads :
          Active(th) =>
             \/ CanRun(th)
             \/ \E o \in Threads \ {th} :
                   /\ WaitsFor(th, o)
                   /\ \/ CanRun(o)
                      \/ \E o2 \in Threads \ {th, o} : WaitsFor(o, o2) /\ CanRun(o2)

\* C11 witness: stop() waits in join for the capture thread, which waits for
\* the queue lock held by the processing thread in its empty-queue sleep,
\* after the processing thread has held the cooldown lock for a detection.
C11_Witness ==
    /\ ctl_pc = "join_capture"
    /\ cap_pc = "lock"
    /\ HeldBy("processing") = {"frame_queue_mutex_"}
    /\ detection_counter_ > 0

\* ------------------------------------------------ claims on the shared state
\* The structures the two loops may share, and the lock of each.
SharedStructures == {"frame_queue_", "ocr_cache_", "detection_cooldown_"}

LockOf(v) ==
    CASE v = "frame_queue_"        -> "frame_queue_mutex_"
      [] v = "detection_cooldown_" -> "cooldown_mutex_"
      [] OTHER                     -> "cache_mutex_"

\* C12 (as stated): the frame queue, the OCR cache and the cooldown map are
\* accessed only under their own lock, and apart from them and the shutdown
\* flag no variable is written by one loop and read or written by the other.
C12_NoOtherSharedState ==
    /\ \A a \in accessed : a.var \in SharedStructures => LockOf(a.var) \in a.held
    /\ \A a, b \in accessed :
          (a.th # b.th /\ a.var = b.var /\ a.w)
             => a.var \in SharedStructures \cup {"running_"}

\* ------------------------------------------------- claims on the validator
\* The text is a plate of one of the two grammars.
IsPlate(text) == PATTERN_STANDARD(text) \/ PATTERN_DIPLOMATIC(text)

\* C13: normalizing the result of normalizeColombianPlate gives that result
\* again: a 6-character plate normalizes to itself, the empty (rejected)
\* result to empty.
C13_Idempotent ==
    val_pc = "renormalized" => renormalized = normalized

\* C13 witness: a plate extracted from a longer text was normalized again.
C13_Witness ==
    /\ val_pc = "renormalized"
    /\ Len(clean_text) > 6
    /\ Len(normalized) = 6
    /\ renormalized = normalized

\* C14: a non-empty result of normalizeColombianPlate has exactly 6
\* characters and matches the standard grammar (3 upper-case letters, 3
\* digits) or the diplomatic grammar (CD, 4 digits).
C14_ResultIsPlate ==
    (val_pc # "input" /\ normalized # <<>>) => (Len(normalized) = 6 /\ IsPlate(normalized))

\* C14 witness: a text of six characters after cleaning was returned as a
\* diplomatic plate.
C14_Witness ==
    /\ val_pc = "normalized"
    /\ Len(clean_text) = 6
    /\ normalized = <<"C", "D", "1", "1", "1", "1">>

\* C15 (as stated): normalizeColombianPlate("XCD12345Y") cleans the text to
\* the 9 characters XCD12345Y and returns the diplomatic plate CD1234.
C15_ScenarioB_Diplomatic ==
    (val_pc # "input" /\ raw_text = ScenarioB)
        => /\ clean_text = ScenarioB /\ Len(clean_text) = 9
           /\ normalized = <<"C", "D", "1", "2", "3", "4">>
           /\ PATTERN_DIPLOMATIC(normalized)

\* C15 (amended): normalizeColombianPlate("XCD12345Y") cleans the text to the
\* 9 characters XCD12345Y and returns the standard-format plate XCD123: the
\* standard grammar is searched first and matches at the first character.
C15_ScenarioB_Standard ==
    (val_pc # "input" /\ raw_text = ScenarioB)
        => /\ clean_text = ScenarioB /\ Len(clean_text) = 9
           /\ normalized = <<"X", "C", "D", "1", "2", "3">>
           /\ PATTERN_STANDARD(normalized)

\* C15 witness: scenario B has been normalized.
C15_Witness ==
    /\ val_pc = "normalized"
    /\ raw_text = ScenarioB
    /\ normalized # <<>>

\* The 6 characters of text from position i.
Window(text, i) == SubSeq(text, i, i + 5)

\* plate is the leftmost window of text that matches the standard grammar.
LeftmostStandard(text, plate) ==
    \E i \in 1..(Len(text) - 5) :
        /\ plate = Window(text, i)
        /\ PATTERN_STANDARD(plate)
        /\ \A j \in 1..(i - 1) : ~PATTERN_STANDARD(Window(text, j))

\* plate is the leftmost window of text that matches the diplomatic grammar.
LeftmostDiplomatic(text, plate) ==
    \E i \in 1..(Len(text) - 5) :
        /\ plate = Window(text, i)
        /\ PATTERN_DIPLOMATIC(plate)
        /\ \A j \in 1..(i - 1) : ~PATTERN_DIPLOMATIC(Window(text, j))

\* C16: for cleaned text longer than 6 characters the result is the leftmost
\* substring matching the standard grammar if there is one anywhere (even
\* when a diplomatic match starts earlier); otherwise the leftmost substring
\* matching the diplomatic grammar; otherwise the first 6 characters are
\* validated again and the result is empty when they match neither grammar.
C16_SearchOrder ==
    (val_pc # "input" /\ Len(clean_text) > 6)
        => IF \E i \in 1..(Len(clean_text) - 5) : PATTERN_STANDARD(Window(clean_text, i))
           THEN LeftmostStandard(clean_text, normalized)
           ELSE IF \E i \in 1..(Len(clean_text) - 5) :
                        PATTERN_DIPLOMATIC(Window(clean_text, i))
           THEN LeftmostDiplomatic(clean_text, normalized)
           ELSE normalized = (IF IsPlate(Window(clean_text, 1))
                              THEN Window(clean_text, 1) ELSE <<>>)

\* C16 witness: the standard match was returned although a diplomatic match
\* starts before it.
C16_Witness ==
    /\ val_pc = "normalized"
    /\ raw_text = DiplomaticBeforeStandard
    /\ PATTERN_DIPLOMATIC(Window(clean_text, 1))
    /\ normalized = Window(clean_text, 7)

\* clean_text is raw_text without its non-alphanumeric characters, upper-cased.
IsCleaned ==
    /\ \A i \in 1..Len(clean_text) : clean_text[i] \in UpperLetters \cup Digits
    /\ Len(clean_text) = Cardinality({i \in 1..Len(raw_text) : raw_text[i] \notin Separators})

\* C17: when the cleaned form of the input has fewer than 6 characters the
\* result is empty; when it has exactly 6 the result is the cleaned text if
\* it matches the standard or the diplomatic grammar and empty otherwise;
\* "A B C - 1 2 3" gives ABC123 and "AB12" is rejected.
C17_ShortAndExact ==
    val_pc # "input"
        => /\ IsCleaned
           /\ Len(clean_text) < 6 => normalized = <<>>
           /\ Len(clean_text) = 6
                 => normalized = (IF IsPlate(clean_text) THEN clean_text ELSE <<>>)
           /\ raw_text = ScenarioA => normalized = <<"A", "B", "C", "1", "2", "3">>
           /\ raw_text = ScenarioC => normalized = <<>>

\* C17 witness: scenario A, cleaned from 13 characters to the plate ABC123.
C17_Witness ==
    /\ val_pc = "normalized"
    /\ raw_text = ScenarioA
    /\ Len(clean_text) = 6
    /\ normalized = clean_text

C19_RemovedOverlapsKept ==
    det_pc = "filtered"
        => /\ \A i \in 1..Len(detections) :
                 (\A k \in 1..Len(indices) : indices[k] # i)
                    => \E k \in 1..Len(indices) :
                          /\ ~IoUBelow(detections[i].bbox,
                                       detections[indices[k]].bbox, NmsThreshold)
                          /\ detections[indices[k]].confidence >= detections[i].confidence
           /\ decoded = ScenarioD => filtered_detections = <<ScenarioD[2]>>

\* ------------------------------------------------- claims on the OCR cache
\* Calls i and i + 1 of the log are two successive recognize() calls with
\* use_cache = true on regions with the same fingerprint.
SameFingerprintPair(i) ==
    /\ ocr_log[i].use_cache /\ ocr_log[i + 1].use_cache
    /\ calculateImageHash(ocr_log[i].image) = calculateImageHash(ocr_log[i + 1].image)

\* The second call of the pair is a cache hit that returns the first call's
\* result without running the engine.
SecondIsHit(i) ==
    /\ ocr_log[i + 1].hit
    /\ ~ocr_log[i + 1].engine
    /\ ocr_log[i + 1].result = ocr_log[i].result

\* C20 (as stated): of two successive recognize() calls with use_cache = true
\* on regions with the same fingerprint, the second is a cache hit that
\* returns the first call's result without running the engine, whatever the
\* first result was.
C20_SecondCallHits ==
    \A i \in 1..(Len(ocr_log) - 1) : SameFingerprintPair(i) => SecondIsHit(i)

\* C20 (amended): ... the second is a cache hit that returns the first
\* call's result without running the engine, provided the first call
\* returned a result with text (a result without text is never stored, nor
\* is anything stored before initialize() or for an empty image).
C20_SecondCallHitsAfterText ==
    \A i \in 1..(Len(ocr_log) - 1) :
        (SameFingerprintPair(i) /\ ocr_log[i].result.text # "") => SecondIsHit(i)

\* C20 witness: the engine ran once for the first region and the second,
\* a different region with the same fingerprint, got the stored result.
C20_Witness ==
    /\ Len(ocr_log) = 2
    /\ SameFingerprintPair(1)
    /\ ocr_log[1].image # ocr_log[2].image
    /\ ocr_log[1].engine /\ ocr_log[1].result.text = "ABC123"
    /\ ocr_log[2].hit
    /\ engine_calls = 1

\* -------------------------------------------------- claims on the OCR cache
\* C21: in every reachable state the OCR cache holds at most max_cache_size_
\* (100) entries, under any sequence of recognize() calls and clearCache()
\* calls interleaved with them.
C21_CacheBounded == Cardinality(CachedKeys(ocr_cache_)) <= MaxCacheSize

\* C21 witness: a store found the cache at capacity, evicted and inserted.
C21_Witness ==
    /\ engine_calls > MaxCacheSize
    /\ ocr_pc = "idle"
    /\ Cardinality(CachedKeys(ocr_cache_)) = MaxCacheSize - MaxCacheSize \div 5 + 1

\* C22: when recognize() inserts into a cache that is at capacity, the
\* entries evicted are exactly the oldest 20% by insertion order, and every
\* entry inserted later than those remains retrievable.
C22_EvictsOldest ==
    [][(ocr_pc = "store" /\ Cardinality(CachedKeys(ocr_cache_)) >= MaxCacheSize)
        => LET oldest == FirstKeys(insert_order, MaxCacheSize \div 5)
           IN  /\ CachedKeys(ocr_cache_') \cap oldest = {}
               /\ CachedKeys(ocr_cache_) \ oldest \subseteq CachedKeys(ocr_cache_')]_vars

\* ---------------------------------------------------- claims on detect()
\* The detect() call cannot produce candidates: the detector is not
\* initialized, the frame is empty, inference throws, or the output cannot be
\* decoded.
DetectFails ==
    \/ ~det_call.initialized
    \/ det_call.frame = EmptyFrame
    \/ det_call.forward = "cv_exception"
    \/ det_call.num_features < 4

\* C23: detect() returns an empty list and raises nothing to the caller
\* whenever the detector is uninitialized, the frame is empty, or inference
\* or decoding fails; the caller then goes on with a frame that has no
\* candidates.
C23_DetectFailsEmpty ==
    /\ (det_pc = "returned" /\ DetectFails)
          => /\ filtered_detections = <<>>
             /\ ~det_thrown
             /\ ENABLED CropCandidates
    /\ (det_pc = "cropped" /\ DetectFails) => rois = <<>>

\* C23 witness: inference threw on a frame with two decodable boxes, and
\* processFrame went through its loop with nothing to crop.
C23_Witness ==
    /\ det_pc = "cropped"
    /\ det_call.initialized
    /\ det_call.frame # EmptyFrame
    /\ det_call.forward = "cv_exception"
    /\ det_call.num_features = 5
    /\ Len(decoded) = 2
    /\ rois = <<>>

\* A region that lies entirely inside the frame, with positive extent.
InsideFrame(roi, frame) ==
    /\ 0 <= roi.x
    /\ 0 <= roi.y
    /\ roi.w > 0
    /\ roi.h > 0
    /\ roi.x + roi.w <= frame.cols
    /\ roi.y + roi.h <= frame.rows

\* C30: for every candidate box (any integer x, y, width, height, negative or
\* out-of-frame values included) processFrame either skips the candidate or
\* crops a region that lies entirely inside the frame with positive width
\* and height.
C30_CropInsideFrame ==
    det_pc = "cropped"
        => \A i \in 1..Len(rois) :
              /\ Len(rois) = Len(filtered_detections)
              /\ rois[i].cropped => InsideFrame(rois[i].roi, det_call.frame)
              /\ ~rois[i].cropped => RoiSkipped(rois[i].roi)

\* C30 witness: a box that starts left of and above the frame and reaches
\* beyond its right and bottom edges was cropped.
C30_Witness ==
    /\ det_pc = "cropped"
    /\ Len(rois) = 1
    /\ rois[1].cropped
    /\ rois[1].bbox.x < 0
    /\ rois[1].bbox.y < 0
    /\ rois[1].bbox.x + rois[1].bbox.w > det_call.frame.cols
    /\ rois[1].bbox.y + rois[1].bbox.h > det_call.frame.rows

\* ------------------------------------------ claims on initialize() and main()
\* A step of initialize() in which the video source came up.
InitializeRan ==
    /\ ~initialized_
    /\ video_started'
    /\ <<video_started, detector_ready, ocr_initialized_, db_connected, initialized_>>'
         # <<video_started, detector_ready, ocr_initialized_, db_connected, initialized_>>

\* C24: a failure to initialize the detector, the OCR engine or the database
\* is never fatal: in each of the three cases initialize() still succeeds.
C24_NeverFatal == [][InitializeRan => initialized_']_vars

\* C26: the values given on the command line with --ai-every, --cooldown and
\* --confidence are the cadence divisor, cooldown interval and detection
\* threshold in effect in the running pipeline (without the option, the
\* configuration's value, 2, 0.5 and 0.30 by default).
C26_OptionsInEffect ==
    (proc_pc \notin {"none", "init"})
        => /\ ai_every = IF cli.ai_every # NoOption THEN cli.ai_every
                         ELSE config_.ai_process_every
           /\ cooldown_seconds_ = IF cli.cooldown # NoOption THEN cli.cooldown
                                  ELSE config_.detection_cooldown_sec
           /\ ConfidenceThreshold = IF cli.confidence # NoOption THEN cli.confidence
                                    ELSE ConfidenceThreshold

\* ------------------------------------------- claims on the record sink
\* A step in which processingThread ran processFrame and handled its results.
FrameProcessed == proc_pc \in {"process", "cooldown"} /\ proc_pc' = "loop"

\* C25: when the database is not connected, an accepted valid detection is
\* still counted and still updates the cooldown map, saveDetection performs
\* no insert and raises no error, and the event's authorized flag stays
\* false.
C25_DetectionOnly ==
    [][(FrameProcessed /\ ~db_connected)
        => /\ detection_counter_' = detection_counter_ + Len(results')
           /\ db_inserted' = db_inserted
           /\ \A i \in 1..Len(results') :
                 /\ results'[i].valid
                 /\ ~results'[i].authorized
                 /\ detection_cooldown_'[results'[i].plate_text] = now']_vars

\* C25 witness: a plate was accepted and counted while the database was not
\* connected, and nothing was inserted.
C25_Witness ==
    /\ ~db_connected
    /\ proc_pc = "loop"
    /\ Len(results) = 1
    /\ results[1].plate_text = "ABC123"
    /\ detection_counter_ = 1
    /\ db_inserted = 0

\* C27: for any two detection events for the same normalized plate that the
\* pipeline hands to the record sink, their timestamps differ by at least the
\* cooldown interval.
C27_EventsSpaced ==
    last_event.gap # NoEntry => last_event.gap >= cooldown_seconds_

\* ------------------------------------------ claims on the frame-queue lock
\* C28: the capture loop never blocks indefinitely: when the frame source
\* yields no frame it waits and retries, and every frame it obtains is
\* eventually inserted into the frame queue, under any weakly fair scheduling
\* of the capture and inference threads, including while the inference loop
\* polls an empty queue.
C28_FramesEventuallyQueued ==
    /\ [][(cap_pc = "get" /\ cap_pc' \notin {"get", "lock"}) => cap_pc' = "loop"]_vars
    /\ (cap_pc = "lock") ~> (cap_pc = "loop")

\* C29: the frame-queue lock is held only for the duration of a queue
\* operation (emptiness or size test, pop, push): neither loop sleeps, waits
\* for a frame, or runs detection or OCR while holding it, including when the
\* inference loop finds the queue empty.
C29_LockOnlyForQueueOps ==
    /\ frame_queue_mutex_ = "capture" => cap_pc = "push"
    /\ frame_queue_mutex_ = "processing" => proc_pc = "locked"

C34_ScoreByGrammar ==
    val_pc = "scored"
        => /\ format_score = IF PATTERN_DIPLOMATIC(raw_text) THEN 95
                             ELSE IF PATTERN_STANDARD(raw_text) THEN 90
                             ELSE 0
           /\ format_score > 0 <=> isValidColombianFormat(raw_text)

\* C39: extractBestPlateCandidates returns a list without raising for every
\* input string, including the non-empty inputs whose cleaned form has fewer
\* than 6 characters.
C39_ExtractNeverRaises ==
    val_pc = "extracted" => ~cand_thrown

\* ------------------------------- claims on recognizeMultipleAttempts
\* A recognizeMultipleAttempts call has returned after running the engine.
AttemptsReturned ==
    /\ ocr_pc = "idle"
    /\ attempt_hist.returned # NoResult
    /\ attempt_hist.tried # <<>>

\* The highest confidence among the results of the attempts made.
HighestSeen ==
    CHOOSE c \in {r.confidence : r \in attempt_hist.seen} :
        \A r \in attempt_hist.seen : r.confidence <= c

\* C31: recognizeMultipleAttempts returns the result with the highest
\* confidence among all OCR attempts it performed in that call (the binarized
\* variants plus the fallback attempt when it is made); when every attempt
\* was rejected it returns an empty result with confidence 0.
C31_ReturnsBest ==
    AttemptsReturned
        => /\ attempt_hist.returned.confidence = HighestSeen
           /\ HighestSeen > 0 => attempt_hist.returned \in attempt_hist.seen
           /\ attempt_hist.seen = {DefaultResult} => attempt_hist.returned = DefaultResult

\* Twelve variants at the minimum confidence, then a fallback that reads the
\* plate with confidence 0.95 and is the result returned.
C31_Witness ==
    /\ AttemptsReturned
    /\ Len(attempt_hist.tried) = Len(applyMultipleThresholds) + 1
    /\ attempt_hist.after_variants = PlateConfidenceMin
    /\ attempt_hist.returned = [text |-> "ABC123", confidence |-> 95]

\* The attempts made so far are the first variants in the order of
\* applyMultipleThresholds, followed by the fallback or not.
InFixedOrder(tried) ==
    \A i \in 1..Len(tried) :
        \/ i <= Len(applyMultipleThresholds) /\ tried[i] = applyMultipleThresholds[i]
        \/ i = Len(tried) /\ tried[i] = Preprocessed

FallbackMade == \E i \in 1..Len(attempt_hist.tried) : attempt_hist.tried[i] = Preprocessed

\* C32: in recognizeMultipleAttempts the binarized variants are tried in a
\* fixed order and none is tried after the best confidence exceeds 0.9; the
\* single-attempt fallback is run exactly when the best confidence after the
\* variants is below 0.5; so one call invokes the OCR engine at most 13 times
\* and an early stop is never followed by the fallback.
C32_AttemptOrder ==
    /\ InFixedOrder(attempt_hist.tried)
    /\ ~attempt_hist.after_high
    /\ Len(attempt_hist.tried) <= 13
    /\ AttemptsReturned
          => /\ FallbackMade <=> attempt_hist.after_variants < 50
             /\ attempt_hist.early => ~FallbackMade

\* A call that stopped at the third variant and returned.
C32_Witness ==
    /\ AttemptsReturned
    /\ attempt_hist.early
    /\ attempt_hist.tried = SubSeq(applyMultipleThresholds, 1, 3)

\* C38: recognizeMultipleAttempts neither reads nor writes the OCR cache: the
\* cache contents are unchanged by its calls, and a plate region whose
\* fingerprint has an entry is run through the OCR engine again.
C38_CacheUntouched ==
    /\ [][attempt_hist' # attempt_hist
            => /\ ocr_cache_' = ocr_cache_
               /\ engine_calls' - engine_calls
                      = Len(attempt_hist'.tried)
                        - (IF attempt_hist'.calls = attempt_hist.calls
                           THEN Len(attempt_hist.tried) ELSE 0)]_vars
    /\ [](AttemptsReturned => Len(attempt_hist.tried) >= 1)
    /\ []((ocr_pc = "idle" /\ attempt_hist.returned # NoResult /\ attempt_hist.cached
              /\ ocr_initialized_ /\ plate_image # EmptyImage)
             => attempt_hist.tried # <<>>)

\* A region with an entry in the cache went through the engine twelve times
\* and the entry is still there.
C38_Witness ==
    /\ AttemptsReturned
    /\ attempt_hist.cached
    /\ Len(attempt_hist.tried) >= Len(applyMultipleThresholds)
    /\ calculateImageHash(plate_image) \in CachedKeys(ocr_cache_)

\* ------------------------------------- claims on initialize(), start(), stop()
\* C35: if the frame source cannot be started, initialize() returns failure
\* and the system stays uninitialized; a subsequent start() then launches no
\* thread and leaves the running flag false.
C35_SourceFailureStops ==
    init_returned = "false: video"
        => /\ ~initialized_
           /\ ~ENABLED Start
           /\ ~running_
           /\ capture_thread_ = 0 /\ processing_thread_ = 0

\* initialize() has returned failure because the source did not start.
C35_Witness ==
    /\ init_returned = "false: video"
    /\ ~video_started
    /\ ctl_pc = "idle"

\* C36: for any sequence of initialize(), start() and stop() calls from the
\* control thread, at most one capture thread and one inference thread exist
\* at any time: start() while already running creates no additional thread,
\* and stop() when not running is a no-op.
C36_OneThreadEach ==
    /\ capture_thread_ <= 1
    /\ processing_thread_ <= 1
    /\ running_ => ~ENABLED Start
    /\ ~running_ => ~ENABLED StopBegin

\* The pipeline runs after its second start, with one thread of each kind.
C36_Witness ==
    /\ starts = 2
    /\ running_
    /\ capture_thread_ = 1
    /\ processing_thread_ = 1
    /\ cap_pc = "get"
    /\ proc_pc = "lock"

\* C37: after a stop() has completed, a later start() restores a working
\* pipeline: frames delivered by the source are again enqueued by the capture
\* loop and processed by the inference loop, and no frame captured before the
\* stop is processed after the restart.
C37_RestartWorks ==
    /\ []((starts > 1 /\ running_ /\ cap_pc = "get" /\ frame_counter_ < MaxFrames)
             => ENABLED CapGetFrame(TRUE))
    /\ [][(starts > 1 /\ processed' # processed)
            => processed'[Len(processed')] > stopped_at]_vars

====
